---- MODULE Spec2Model ----
(***************************************************************************)
(* A model of the blockchain-ts node: the ledger engine (Blockchain),      *)
(* blocks and transactions, the P2P message handlers that mutate the       *)
(* ledger, and the miner's worker-message handler.                         *)
(*                                                                         *)
(* Conventions of the model                                                *)
(*  - A SHA-256 digest is modelled by the data that is digested: a hash is *)
(*    the flat sequence of integers that serialises the hashed fields, so  *)
(*    two hashes are equal exactly when the hashed contents are equal.     *)
(*  - The number of leading zero nibbles of a block hash is modelled as a  *)
(*    function of the hashed content: a hash computed with nonce n has n   *)
(*    leading zeros, so the nonce search stops at nonce = difficulty.      *)
(*  - Times are milliseconds counted from the genesis timestamp            *)
(*    1609459200000 (which does not fit a 32-bit integer).                 *)
(*  - A signature is 0 when empty ('') and 1 + the signer's code otherwise.*)
(*  - outputIndex is 0-based as in the source; sequences are 1-based.      *)
(***************************************************************************)
EXTENDS Integers, Sequences, FiniteSets, TLC

(***************************************************************************)
(* Bounds of the model                                                     *)
(***************************************************************************)
\* Blocks are produced or accepted only while the chain is shorter than this.
MaxChain == 4
\* Math.random() nonces of transactions are drawn from 1..MaxNonce.
MaxNonce == 2
\* The pending list never grows beyond this many transactions.
MaxPending == 2
\* The clock advances at most this many times (by one day each time).
MaxTicks == 1
\* At most this many transactions with inputs are created by the calls.
MaxSpends == 2
\* At most this many handlers wait for the replace-mutex.
MaxWaiters == 1
\* Peers send forged chains of 2 up to this many blocks.
MaxForged == 3
\* POW_CUTOFF_BLOCK is 100 in the source (src/src/index.ts:105); the model
\* scales it down so that the PoS phase is reached within MaxChain blocks.
POW_CUTOFF_BLOCK == 2
\* The scale of POW_CUTOFF_BLOCK in the specification of the miner, where a
\* proof-of-work block has to be mined on top of another block than genesis.
MINER_POW_CUTOFF == 3
\* At most this many WebSocket objects are alive at a time.
MaxSockets == 2
\* At most this many reconnect timers are pending at a time.
MaxReconnects == 2
\* At most this many untracked timers (the miner's delay-path timers, the
\* staking service's retry timers) are pending at a time.
MaxTimers == 2

\* The configured POW_CUTOFF_BLOCK of the running node: fixed at start-up,
\* never assigned afterwards.
VARIABLE powCutoff

(***************************************************************************)
(* Program constants                                                       *)
(***************************************************************************)
POS_BLOCK_REWARD == 10
POW_BLOCK_REWARD == 12500
BLOCK_TIME == 600
DIFFICULTY_ADJUSTMENT_INTERVAL == 10
DIFFICULTY_ADJUSTMENT_FACTOR == 4
MIN_STAKE_AMOUNT == 100
MIN_STAKE_AGE == 86400
STAKE_CHECK_INTERVAL == 60000
GenesisAmount == 1000000
GenesisDifficulty == 4
\* 1609459200000 ms, the origin of the model's time axis.
GenesisTimestamp == 0
\* MIN_STAKE_AGE in milliseconds: the clock of a node starts one day after
\* the genesis timestamp and advances by a day.
DayMs == MIN_STAKE_AGE * 1000

Address == {"genesis", "miner1", "user1"}

AddrCode(a) == CASE a = "genesis" -> 1 [] a = "miner1" -> 2 [] a = "user1" -> 3

NonceSet == 1..MaxNonce

\* The previousHash '0' of the genesis block.
ZeroHash == <<0>>

(***************************************************************************)
(* Transaction                                                             *)
(***************************************************************************)
TxInput(previousTx, outputIndex, signature) ==
    [previousTx |-> previousTx, outputIndex |-> outputIndex, signature |-> signature]

TxOutput(address, amount) == [address |-> address, amount |-> amount]

\* new Transaction(inputs, outputs, timestamp, nonce) with every field given.
Transaction(inputs, outputs, timestamp, nonce) ==
    [inputs |-> inputs, outputs |-> outputs, timestamp |-> timestamp, nonce |-> nonce]

RECURSIVE SerInputs(_)
SerInputs(ins) ==
    IF ins = <<>> THEN <<>>
    ELSE <<Len(Head(ins).previousTx)>> \o Head(ins).previousTx
         \o <<Head(ins).outputIndex, Head(ins).signature>> \o SerInputs(Tail(ins))

RECURSIVE SerOutputs(_)
SerOutputs(outs) ==
    IF outs = <<>> THEN <<>>
    ELSE <<AddrCode(Head(outs).address), Head(outs).amount>> \o SerOutputs(Tail(outs))

\* JSON.stringify({inputs, outputs, timestamp, nonce})
SerTx(tx) ==
    <<tx.timestamp, tx.nonce, Len(tx.inputs)>> \o SerInputs(tx.inputs)
    \o <<Len(tx.outputs)>> \o SerOutputs(tx.outputs)

TxCalculateHash(tx) == SerTx(tx)

\* signTransaction: every input gets a non-empty signature of the signer.
SignTransaction(tx, signer) ==
    [tx EXCEPT !.inputs =
        [i \in 1..Len(tx.inputs) |-> [tx.inputs[i] EXCEPT !.signature = 1 + AddrCode(signer)]]]

IsCoinStake(tx) ==
    /\ Len(tx.inputs) > 0
    /\ Len(tx.outputs) >= 2
    /\ tx.outputs[1].amount = 0

TxIsValid(tx) ==
    \/ Len(tx.inputs) = 0 /\ Len(tx.outputs) = 1
    \/ \A i \in 1..Len(tx.inputs) : tx.inputs[i].signature # 0

(***************************************************************************)
(* Block                                                                   *)
(***************************************************************************)
RECURSIVE SerTxs(_)
SerTxs(txs) ==
    IF txs = <<>> THEN <<>>
    ELSE <<Len(SerTx(Head(txs)))>> \o SerTx(Head(txs)) \o SerTxs(Tail(txs))

\* sha256(JSON.stringify({timestamp, transactions, previousHash, nonce}));
\* the index and the difficulty are not hashed.
HashData(timestamp, transactions, previousHash, nonce) ==
    <<nonce, timestamp, Len(previousHash)>> \o previousHash
    \o <<Len(transactions)>> \o SerTxs(transactions)

BlockCalculateHash(b) == HashData(b.timestamp, b.transactions, b.previousHash, b.nonce)

\* The number of leading zero nibbles of a hash.
LeadingZeros(hash) == hash[1]

\* new Block(timestamp, transactions, previousHash, nonce, difficulty, index)
Block(timestamp, transactions, previousHash, nonce, difficulty, index) ==
    [timestamp |-> timestamp, transactions |-> transactions,
     previousHash |-> previousHash, nonce |-> nonce, powDifficulty |-> difficulty,
     index |-> index,
     hash |-> HashData(timestamp, transactions, previousHash, nonce)]

HasValidTransactions(b) == \A i \in 1..Len(b.transactions) : TxIsValid(b.transactions[i])

IsProofOfStake(b) == Len(b.transactions) > 1 /\ IsCoinStake(b.transactions[2])

IsProofOfWork(b) == ~IsProofOfStake(b)

BlockIsValid(b) ==
    IF IsProofOfWork(b)
    THEN b.hash = BlockCalculateHash(b) /\ LeadingZeros(b.hash) >= b.powDifficulty
    ELSE TRUE

\* while (!block.isValid()) { block.nonce++; block.hash = block.calculateHash(); }
\* for a block that was just constructed (its hash matches its content).
MineNonce(b) ==
    IF BlockIsValid(b) THEN b
    ELSE LET n == IF b.nonce + 1 > b.powDifficulty THEN b.nonce + 1 ELSE b.powDifficulty
             m == [b EXCEPT !.nonce = n]
         IN  [m EXCEPT !.hash = BlockCalculateHash(m)]

(***************************************************************************)
(* Blockchain: the ledger                                                  *)
(***************************************************************************)
\* A ledger value: the mutable fields of one Blockchain object and the
\* snapshot file it writes.  NoFile is a missing snapshot file.
NoStake == [amount |-> 0, timestamp |-> 0, lastBlockTime |-> 0]

NoFile == <<>>

UTXO(txHash, outputIndex, output) ==
    [txHash |-> txHash, outputIndex |-> outputIndex, output |-> output]

EmptyUTXOSet == [a \in Address |-> <<>>]

NoStakes == [a \in Address |-> NoStake]

\* All transactions of a chain, in chain order.
RECURSIVE ChainTxs(_)
ChainTxs(c) == IF c = <<>> THEN <<>> ELSE Head(c).transactions \o ChainTxs(Tail(c))

\* findTransaction: the first transaction of the chain with this hash, as a
\* one-element sequence, or <<>> when there is none.
FindTransaction(c, txHash) ==
    LET txs == ChainTxs(c)
        hit == {i \in 1..Len(txs) : TxCalculateHash(txs[i]) = txHash}
    IN  IF hit = {} THEN <<>>
        ELSE <<txs[CHOOSE i \in hit : \A j \in hit : i <= j]>>

\* Array.prototype.filter
RECURSIVE FilterUTXO(_, _, _)
FilterUTXO(utxos, txHash, outputIndex) ==
    IF utxos = <<>> THEN <<>>
    ELSE LET rest == FilterUTXO(Tail(utxos), txHash, outputIndex)
         IN  IF Head(utxos).txHash # txHash \/ Head(utxos).outputIndex # outputIndex
             THEN <<Head(utxos)>> \o rest ELSE rest

\* updateUTXOSet, the loop over the inputs of one transaction.  The result is
\* [u, ok]; ok is FALSE when outputs[input.outputIndex] is undefined and the
\* read of its address throws.
RECURSIVE RemoveSpent(_, _, _)
RemoveSpent(c, st, ins) ==
    IF ins = <<>> \/ ~st.ok THEN st
    ELSE LET input == Head(ins)
             found == FindTransaction(c, input.previousTx)
         IN  IF found = <<>> THEN RemoveSpent(c, st, Tail(ins))
             ELSE IF input.outputIndex + 1 > Len(found[1].outputs)
             THEN [st EXCEPT !.ok = FALSE]
             ELSE LET spender == found[1].outputs[input.outputIndex + 1].address
                      u2 == [st.u EXCEPT ![spender] =
                                FilterUTXO(@, input.previousTx, input.outputIndex)]
                  IN  RemoveSpent(c, [st EXCEPT !.u = u2], Tail(ins))

\* updateUTXOSet, the forEach over the outputs of one transaction.
RECURSIVE AddOutputs(_, _, _, _)
AddOutputs(u, txHash, outs, index) ==
    IF index >= Len(outs) THEN u
    ELSE LET output == outs[index + 1]
         IN  AddOutputs([u EXCEPT ![output.address] = Append(@, UTXO(txHash, index, output))],
                        txHash, outs, index + 1)

RECURSIVE UpdateUTXOTxs(_, _, _)
UpdateUTXOTxs(c, st, txs) ==
    IF txs = <<>> \/ ~st.ok THEN st
    ELSE LET tx == Head(txs)
             removed == RemoveSpent(c, st, tx.inputs)
         IN  IF ~removed.ok THEN removed
             ELSE UpdateUTXOTxs(c,
                    [removed EXCEPT !.u = AddOutputs(removed.u, TxCalculateHash(tx), tx.outputs, 0)],
                    Tail(txs))

\* updateUTXOSet(block) on the index u of a ledger whose chain is c.
UpdateUTXOSet(c, u, block) == UpdateUTXOTxs(c, [u |-> u, ok |-> TRUE], block.transactions)

\* for (const block of this.chain) this.updateUTXOSet(block), from index u.
RECURSIVE UpdateUTXOBlocks(_, _, _)
UpdateUTXOBlocks(c, st, blocks) ==
    IF blocks = <<>> \/ ~st.ok THEN st
    ELSE UpdateUTXOBlocks(c, UpdateUTXOTxs(c, st, Head(blocks).transactions), Tail(blocks))

\* createGenesisBlock; nonce is the Math.random() nonce of its transaction.
CreateGenesisBlock(nonce) ==
    Block(GenesisTimestamp,
          <<Transaction(<<>>, <<TxOutput("genesis", GenesisAmount)>>, GenesisTimestamp, nonce)>>,
          ZeroHash, 0, GenesisDifficulty, 0)

GetLatestBlock(L) == L.chain[Len(L.chain)]

CanAcceptPowBlock(L) == Len(L.chain) < powCutoff

GetUTXOs(L, address) == L.utxoSet[address]

RECURSIVE SumUTXO(_)
SumUTXO(utxos) == IF utxos = <<>> THEN 0 ELSE Head(utxos).output.amount + SumUTXO(Tail(utxos))

GetBalance(L, address) == SumUTXO(L.utxoSet[address])

Max(a, b) == IF a >= b THEN a ELSE b

CalculateNewDifficulty(L) ==
    IF Len(L.chain) < DIFFICULTY_ADJUSTMENT_INTERVAL THEN L.chain[1].powDifficulty
    ELSE LET lastBlock == GetLatestBlock(L)
             lastAdjustmentBlock == L.chain[Len(L.chain) - DIFFICULTY_ADJUSTMENT_INTERVAL + 1]
             timeExpected == BLOCK_TIME * DIFFICULTY_ADJUSTMENT_INTERVAL
             timeTaken == lastBlock.timestamp - lastAdjustmentBlock.timestamp
         IN  IF timeTaken * DIFFICULTY_ADJUSTMENT_FACTOR < timeExpected
             THEN lastBlock.powDifficulty + 1
             ELSE IF timeTaken > timeExpected * DIFFICULTY_ADJUSTMENT_FACTOR
             THEN Max(1, lastBlock.powDifficulty - 1)
             ELSE lastBlock.powDifficulty

\* saveBlockchain: JSON.stringify(this.chain) written to FILE_PATH.
SaveBlockchain(L) == [L EXCEPT !.file = L.chain]

\* validateStake(stakeTransaction) at time t.
ValidateStake(L, stakeTransaction, t) ==
    /\ IsCoinStake(stakeTransaction)
    /\ LET stakeInput == stakeTransaction.inputs[1]
           stakeOutput == stakeTransaction.outputs[2]
           found == FindTransaction(L.chain, stakeInput.previousTx)
       IN  /\ stakeOutput.amount >= MIN_STAKE_AMOUNT
           /\ found # <<>>
           /\ stakeInput.outputIndex + 1 <= Len(found[1].outputs)
           /\ LET prevOutput == found[1].outputs[stakeInput.outputIndex + 1]
              IN  /\ prevOutput.amount = stakeOutput.amount
                  /\ t - found[1].timestamp >= MIN_STAKE_AGE * 1000
                  /\ \E k \in 1..Len(L.utxoSet[prevOutput.address]) :
                        /\ L.utxoSet[prevOutput.address][k].txHash = stakeInput.previousTx
                        /\ L.utxoSet[prevOutput.address][k].outputIndex = stakeInput.outputIndex
                  /\ prevOutput.address = stakeOutput.address

\* The first check of addMinedBlock that fails, or "ok".
AddMinedBlockError(L, block, t) ==
    LET lastBlock == GetLatestBlock(L)
    IN  IF ~HasValidTransactions(block) THEN "Block contains invalid transactions"
        ELSE IF block.timestamp - lastBlock.timestamp < BLOCK_TIME * 1000
             THEN "Block created too quickly"
        ELSE IF block.previousHash # lastBlock.hash THEN "Invalid previous hash"
        ELSE IF block.index # Len(L.chain) THEN "Invalid block index"
        ELSE IF IsProofOfWork(block) /\ ~CanAcceptPowBlock(L)
             THEN "PoW blocks no longer accepted after block 100"
        ELSE IF IsProofOfWork(block) /\ block.powDifficulty # CalculateNewDifficulty(L)
             THEN "Invalid block difficulty"
        ELSE IF IsProofOfWork(block) /\ ~BlockIsValid(block) THEN "Invalid proof of work"
        ELSE IF IsProofOfStake(block) /\ ~ValidateStake(L, block.transactions[2], t)
             THEN "Invalid stake"
        ELSE "ok"

\* chain.push(block); pendingTransactions = []; updateUTXOSet(block), and
\* saveBlockchain() when doSave.  The result is [L, err]; when updateUTXOSet
\* throws, the block stays pushed, the index is left as it was when the
\* exception was raised and nothing is saved.
CommitBlock(L, block, doSave) ==
    LET c2 == Append(L.chain, block)
        st == UpdateUTXOSet(c2, L.utxoSet, block)
        L2 == [L EXCEPT !.chain = c2, !.pendingTransactions = <<>>, !.utxoSet = st.u]
    IN  IF ~st.ok THEN [L |-> L2, err |-> "TypeError"]
        ELSE [L |-> IF doSave THEN SaveBlockchain(L2) ELSE L2, err |-> "ok"]

\* An addMinedBlock that commits the block without any of its checks.
AddMinedBlockUnchecked(L, block, t) == CommitBlock(L, block, TRUE)

\* addMinedBlock(block) at time t.
AddMinedBlock(L, block, t) ==
    LET e == AddMinedBlockError(L, block, t)
    IN  IF e # "ok" THEN [L |-> L, err |-> e] ELSE CommitBlock(L, block, TRUE)

HasStake(L, address) == L.stakes[address] # NoStake

GetStake(L, address) == L.stakes[address].amount

\* The greedy selection shared by stake and createTransaction: UTXOs are
\* taken in index order until their sum reaches the amount.  The result is
\* [inputs, inputSum].
RECURSIVE SelectInputs(_, _, _)
SelectInputs(utxos, amount, acc) ==
    IF utxos = <<>> THEN acc
    ELSE LET utxo == Head(utxos)
             acc2 == [inputs |-> Append(acc.inputs, TxInput(utxo.txHash, utxo.outputIndex, 0)),
                      inputSum |-> acc.inputSum + utxo.output.amount]
         IN  IF acc2.inputSum >= amount THEN acc2
             ELSE SelectInputs(Tail(utxos), amount, acc2)

\* A createTransaction that never returns the change to the sender.
CreateTransactionNoChange(L, from, to, amount, t, nonce) ==
    LET sel == SelectInputs(GetUTXOs(L, from), amount, [inputs |-> <<>>, inputSum |-> 0])
    IN  IF sel.inputSum < amount
        THEN [tx |-> Transaction(<<>>, <<>>, t, nonce), err |-> "Insufficient funds"]
        ELSE [tx |-> SignTransaction(Transaction(sel.inputs, <<TxOutput(to, amount)>>,
                                                 t, nonce), from),
              err |-> "ok"]

\* createTransaction(from, to, amount, wallet) at time t; the wallet signs
\* for `from`.  The result is [tx, err].
CreateTransaction(L, from, to, amount, t, nonce) ==
    LET sel == SelectInputs(GetUTXOs(L, from), amount, [inputs |-> <<>>, inputSum |-> 0])
        change == sel.inputSum - amount
        outputs == IF change > 0 THEN <<TxOutput(to, amount), TxOutput(from, change)>>
                   ELSE <<TxOutput(to, amount)>>
    IN  IF sel.inputSum < amount
        THEN [tx |-> Transaction(<<>>, <<>>, t, nonce), err |-> "Insufficient funds"]
        ELSE [tx |-> SignTransaction(Transaction(sel.inputs, outputs, t, nonce), from),
              err |-> "ok"]

\* addTransaction(transaction).  The result is [L, err].
AddTransaction(L, transaction) ==
    IF Len(transaction.inputs) = 0 \/ Len(transaction.outputs) = 0
    THEN [L |-> L, err |-> "Transaction must have inputs and outputs"]
    ELSE IF ~TxIsValid(transaction)
    THEN [L |-> L, err |-> "Cannot add invalid transaction to chain"]
    ELSE [L |-> [L EXCEPT !.pendingTransactions = Append(@, transaction)], err |-> "ok"]

\* canCreateStakeBlock without the test-environment bypass of the age checks.
CanCreateStakeBlockAged(L, address, t, test) ==
    /\ HasStake(L, address)
    /\ t - L.stakes[address].timestamp >= MIN_STAKE_AGE * 1000
    /\ t - L.stakes[address].lastBlockTime >= STAKE_CHECK_INTERVAL

\* canCreateStakeBlock(address) at time t.
CanCreateStakeBlock(L, address, t, test) ==
    /\ HasStake(L, address)
    /\ \/ test
       \/ /\ t - L.stakes[address].timestamp >= MIN_STAKE_AGE * 1000
          /\ t - L.stakes[address].lastBlockTime >= STAKE_CHECK_INTERVAL

\* findStakeableOutput(address, amount): <<[tx, index]>> for the first UTXO
\* of the address with a sufficient amount whose transaction is in the chain,
\* or <<>>.
RECURSIVE FindStakeableOutput(_, _, _)
FindStakeableOutput(L, utxos, amount) ==
    IF utxos = <<>> THEN <<>>
    ELSE LET utxo == Head(utxos)
             txs == ChainTxs(L.chain)
             hit == {i \in 1..Len(txs) : TxCalculateHash(txs[i]) = utxo.txHash}
         IN  IF utxo.output.amount >= amount /\ hit # {}
             THEN <<[tx |-> txs[CHOOSE i \in hit : \A j \in hit : i >= j],
                     index |-> utxo.outputIndex]>>
             ELSE FindStakeableOutput(L, Tail(utxos), amount)

\* generateStakeBlock(stakeholderAddress) at time t; nonces are the
\* Math.random() nonces of the coinbase and of the coinstake.  The result is
\* [L, block]; block is <<>> for null.
GenerateStakeBlock(L, address, t, test, nonces) ==
    IF ~CanCreateStakeBlock(L, address, t, test) THEN [L |-> L, block |-> <<>>]
    ELSE LET stake == L.stakes[address]
             prevOutput == FindStakeableOutput(L, GetUTXOs(L, address), stake.amount)
         IN  IF prevOutput = <<>> THEN [L |-> L, block |-> <<>>]
             ELSE LET stakeTransaction ==
                          SignTransaction(
                              Transaction(
                                  <<TxInput(TxCalculateHash(prevOutput[1].tx),
                                            prevOutput[1].index, 0)>>,
                                  <<TxOutput(address, 0), TxOutput(address, stake.amount)>>,
                                  t, nonces[2]),
                              address)
                      transactions ==
                          <<Transaction(<<>>, <<TxOutput(address, POS_BLOCK_REWARD)>>,
                                        t, nonces[1]),
                            stakeTransaction>> \o L.pendingTransactions
                      block == Block(t, transactions, GetLatestBlock(L).hash, 0,
                                     CalculateNewDifficulty(L), Len(L.chain))
                  IN  [L |-> [L EXCEPT !.stakes[address].lastBlockTime = t],
                       block |-> <<block>>]

\* minePendingTransactions(minerAddress) at time t.  The result is [L, err];
\* no path of it saves the chain.
MinePendingTransactions(L, minerAddress, t, test, nonces) ==
    LET lastBlock == GetLatestBlock(L)
        timestamp == IF test THEN lastBlock.timestamp + BLOCK_TIME * 1000 + 1
                     ELSE Max(t, lastBlock.timestamp + BLOCK_TIME * 1000 + 1)
        powBlock == MineNonce(
                        Block(timestamp,
                              <<Transaction(<<>>, <<TxOutput(minerAddress, POW_BLOCK_REWARD)>>,
                                            t, nonces[1])>> \o L.pendingTransactions,
                              lastBlock.hash, 0, CalculateNewDifficulty(L), Len(L.chain)))
    IN  IF Len(L.chain) >= powCutoff /\ HasStake(L, minerAddress)
        THEN LET g == GenerateStakeBlock(L, minerAddress, t, test, nonces)
             IN  IF g.block = <<>>
                 THEN [L |-> g.L, err |-> "Failed to generate stake block"]
                 ELSE LET b1 == [g.block[1] EXCEPT !.timestamp = timestamp]
                          stakeBlock == [b1 EXCEPT !.hash = BlockCalculateHash(b1)]
                      IN  CommitBlock(g.L, stakeBlock, FALSE)
        ELSE CommitBlock(L, powBlock, FALSE)

\* stake(address, amount) at time t; nonces[3] is the nonce of the staking
\* transaction.  The result is [L, err].
Stake(L, address, amount, t, test, nonces) ==
    IF amount < MIN_STAKE_AMOUNT THEN [L |-> L, err |-> "Minimum stake amount"]
    ELSE IF GetBalance(L, address) < amount
    THEN [L |-> L, err |-> "Insufficient balance for staking"]
    ELSE LET sel == SelectInputs(GetUTXOs(L, address), amount,
                                 [inputs |-> <<>>, inputSum |-> 0])
             outputs == IF sel.inputSum > amount
                        THEN <<TxOutput(address, amount),
                               TxOutput(address, sel.inputSum - amount)>>
                        ELSE <<TxOutput(address, amount)>>
             stakingTx == SignTransaction(Transaction(sel.inputs, outputs, t, nonces[3]),
                                          address)
             added == AddTransaction(L, stakingTx)
         IN  IF added.err # "ok" THEN added
             ELSE LET mined == MinePendingTransactions(added.L, address, t, test, nonces)
                  IN  IF mined.err # "ok" THEN mined
                      ELSE [L |-> [mined.L EXCEPT !.stakes[address] =
                                      [amount |-> GetStake(mined.L, address) + amount,
                                       timestamp |-> t, lastBlockTime |-> t]],
                            err |-> "ok"]

\* unstake(address, amount).  The result is [L, err].
Unstake(L, address, amount) ==
    IF ~HasStake(L, address) THEN [L |-> L, err |-> "No stake found for address"]
    ELSE IF GetStake(L, address) < amount THEN [L |-> L, err |-> "Insufficient stake amount"]
    ELSE IF GetStake(L, address) - amount = 0
    THEN [L |-> [L EXCEPT !.stakes[address] = NoStake], err |-> "ok"]
    ELSE [L |-> [L EXCEPT !.stakes[address].amount = @ - amount], err |-> "ok"]

\* getTotalBalance(address): the replay over the whole chain.
RECURSIVE TotalIn(_, _, _)
TotalIn(c, ins, address) ==
    IF ins = <<>> THEN 0
    ELSE LET found == FindTransaction(c, Head(ins).previousTx)
             spent == IF found # <<>>
                         /\ Head(ins).outputIndex + 1 <= Len(found[1].outputs)
                         /\ found[1].outputs[Head(ins).outputIndex + 1].address = address
                      THEN found[1].outputs[Head(ins).outputIndex + 1].amount ELSE 0
         IN  TotalIn(c, Tail(ins), address) - spent

RECURSIVE TotalOut(_, _)
TotalOut(outs, address) ==
    IF outs = <<>> THEN 0
    ELSE (IF Head(outs).address = address THEN Head(outs).amount ELSE 0)
         + TotalOut(Tail(outs), address)

RECURSIVE TotalTxs(_, _, _)
TotalTxs(c, txs, address) ==
    IF txs = <<>> THEN 0
    ELSE TotalIn(c, Head(txs).inputs, address) + TotalOut(Head(txs).outputs, address)
         + TotalTxs(c, Tail(txs), address)

\* A total balance that only counts the transactions of the latest block.
GetTotalBalanceOfHead(L, address) ==
    TotalTxs(L.chain, GetLatestBlock(L).transactions, address)

GetTotalBalance(L, address) == TotalTxs(L.chain, ChainTxs(L.chain), address)

\* isChainValid() of a Blockchain object whose chain is c and whose stake
\* registry is stk.
IsChainValid(c, stk) ==
    \A i \in 2..Len(c) :
        LET currentBlock == c[i]
            previousBlock == c[i - 1]
        IN  /\ HasValidTransactions(currentBlock)
            /\ currentBlock.hash = BlockCalculateHash(currentBlock)
            /\ currentBlock.previousHash = previousBlock.hash
            /\ IsProofOfStake(currentBlock) =>
                  LET stake == stk[currentBlock.transactions[2].outputs[2].address]
                  IN  stake # NoStake /\ stake.timestamp <= currentBlock.timestamp
            /\ IsProofOfWork(currentBlock) => BlockIsValid(currentBlock)

\* loadBlockchain() on an existing snapshot: the checks that make it throw.
\* The stored hashes are used as they are.  The rebuild of the UTXO index that
\* follows the checks reads outputs[outputIndex] only for inputs whose
\* transaction it finds, and no snapshot written here holds an input with an
\* index past the outputs of its transaction, so the rebuild does not throw.
LoadBlockchainError(f) ==
    IF f = <<>> THEN "Empty blockchain data"
    ELSE IF \/ f[1].timestamp # GenesisTimestamp
            \/ f[1].previousHash # ZeroHash
            \/ f[1].index # 0
            \/ Len(f[1].transactions) # 1
            \/ Len(f[1].transactions[1].outputs) = 0
            \/ f[1].transactions[1].outputs[1].address # "genesis"
            \/ f[1].transactions[1].outputs[1].amount # GenesisAmount
    THEN "Invalid genesis block"
    ELSE IF \E i \in 2..Len(f) : f[i].previousHash # f[i - 1].hash
    THEN "Invalid chain: broken link"
    ELSE IF \E i \in 2..Len(f) : ~HasValidTransactions(f[i])
    THEN "Invalid chain: invalid transactions"
    ELSE "ok"

\* "ok" when replaceChain accepts newChain, and otherwise an error it throws.
ReplaceChainError(L, newChain, t) ==
    IF Len(newChain) <= Len(L.chain) THEN "Received chain is not longer than current chain"
    ELSE IF \E i \in 2..Len(newChain) : newChain[i].previousHash # newChain[i - 1].hash
    THEN "Invalid chain: broken link"
    ELSE IF \E i \in 2..Len(newChain) : ~HasValidTransactions(newChain[i])
    THEN "Invalid chain: invalid transactions"
    ELSE IF \E i \in 2..Len(newChain) : IsProofOfWork(newChain[i]) /\ ~BlockIsValid(newChain[i])
    THEN "Invalid chain: invalid proof of work"
    ELSE IF \E i \in 2..Len(newChain) :
                IsProofOfWork(newChain[i]) /\ i - 1 >= powCutoff
    THEN "Invalid chain: PoW block after cutoff"
    ELSE IF \E i \in 2..Len(newChain) :
                /\ IsProofOfStake(newChain[i]) /\ i - 1 >= powCutoff
                /\ ~ValidateStake(L, newChain[i].transactions[2], t)
    THEN "Invalid chain: invalid stake"
    ELSE "ok"

RECURSIVE FilterPending(_, _)
FilterPending(pending, c) ==
    IF pending = <<>> THEN <<>>
    ELSE LET rest == FilterPending(Tail(pending), c)
         IN  IF FindTransaction(c, TxCalculateHash(Head(pending))) = <<>>
             THEN <<Head(pending)>> \o rest ELSE rest

\* The body of replaceChain(newChain) once the lock is held, at time t.
\* The result is [L, err].
ReplaceChainBody(L, newChain, t) ==
    LET e == ReplaceChainError(L, newChain, t)
        st == UpdateUTXOBlocks(newChain, [u |-> EmptyUTXOSet, ok |-> TRUE], newChain)
        L2 == [L EXCEPT !.chain = newChain, !.utxoSet = st.u]
    IN  IF e # "ok" THEN [L |-> L, err |-> e]
        ELSE IF ~st.ok THEN [L |-> L2, err |-> "TypeError"]
        ELSE [L |-> SaveBlockchain([L2 EXCEPT !.pendingTransactions =
                                        FilterPending(L.pendingTransactions, newChain)]),
              err |-> "ok"]

(***************************************************************************)
(* State                                                                   *)
(***************************************************************************)
VARIABLES
    chain,                \* Blockchain.chain
    utxoSet,              \* Blockchain.utxoSet
    pendingTransactions,  \* Blockchain.pendingTransactions
    stakes,               \* Blockchain.stakes
    file,                 \* the snapshot at FILE_PATH
    holder,               \* replaceLock: <<>> when free, else the handler that holds it
    waiters,              \* replaceLock: the handlers queued in acquire()
    outbox,               \* the messages broadcast or sent by the last step
    lastErr,              \* the outcome of the last step: "ok" or the error logged or thrown
    mining,               \* Miner.mining
    worker,               \* Miner.worker: <<>> or the block the running worker will post
    socket,               \* Miner.socket is set
    now,                  \* Date.now()
    ticks,                \* how often the clock has advanced
    testMode,             \* process.env.NODE_ENV === 'test'
    miningTimeout,        \* Miner.miningTimeout: <<>>, or the time a pending timer is due
    delayTimers,          \* the times the pending timers of startMining's delay path are due
    minerStopped,         \* history: stopMining returned and startMining was not called since
    connectedPeers,       \* P2PServer.connectedPeers
    peerSockets,          \* the WebSocket objects that have not emitted 'close'
    reconnects,           \* the reconnectToPeer calls waiting in their setTimeout
    checkInterval,        \* StakingService.checkInterval: <<>>, or the time its next tick is due
    retryTimers,          \* the times the pending retry timers of tryGenerateStakeBlock are due
    stakingStopped,       \* history: stop returned and start was not called since
    stakeWeight,          \* per address: <<>>, or what calculateStakeWeight last returned
    newDifficulty,        \* <<>>, or what calculateNewDifficulty last returned
    createdTx,            \* <<>>, or the last createTransaction call: arguments and outcome
    fileText,             \* the snapshot file: "array" (JSON of file), "missing", "blank", "garbage"
    running               \* a process with a constructed Blockchain is up

vars == <<chain, utxoSet, pendingTransactions, stakes, file, holder, waiters, outbox,
          lastErr, mining, worker, socket, now, ticks, testMode, powCutoff,
          miningTimeout, delayTimers, minerStopped, connectedPeers, peerSockets,
          reconnects, checkInterval, retryTimers, stakingStopped, stakeWeight,
          newDifficulty, createdTx, fileText, running>>

ledgerVars == <<chain, utxoSet, pendingTransactions, stakes, file>>

lockVars == <<holder, waiters>>

timerVars == <<miningTimeout, delayTimers, minerStopped>>

minerVars == <<mining, worker, socket, timerVars>>

peerVars == <<connectedPeers, peerSockets, reconnects>>

stakingVars == <<checkInterval, retryTimers, stakingStopped>>

\* What the read-only calls on the ledger returned.
callVars == <<stakeWeight, newDifficulty, createdTx>>

\* What only a start or a stop of the process, or the world outside it,
\* changes.
diskVars == <<fileText, running>>

\* What no call on the ledger, no message and no step of the miner assigns.
envVars == <<testMode, powCutoff, callVars, diskVars, peerVars, stakingVars>>

\* The ledger of the current state as one value.
Ledger ==
    [chain |-> chain, utxoSet |-> utxoSet, pendingTransactions |-> pendingTransactions,
     stakes |-> stakes, file |-> file]

SetLedger(L) ==
    /\ chain' = L.chain
    /\ utxoSet' = L.utxoSet
    /\ pendingTransactions' = L.pendingTransactions
    /\ stakes' = L.stakes
    /\ file' = L.file

\* seq without its i-th element (Array.prototype.splice(index, 1), and a
\* timer that leaves the timer queue).
RemoveAt(seq, i) == SubSeq(seq, 1, i - 1) \o SubSeq(seq, i + 1, Len(seq))

\* The Math.random() nonces drawn while one event is handled.
NonceChoices == {<<n, n, n>> : n \in NonceSet}

BlockMsg(block) == [type |-> "BLOCK", data |-> <<block>>]

GetLatestBlockMsg == [type |-> "GET_LATEST_BLOCK", data |-> <<>>]

(***************************************************************************)
(* Construction: new Blockchain() on a node without a snapshot file.  The  *)
(* constructor indexes one genesis block, and loadBlockchain(), finding no *)
(* file, installs and saves another one.                                   *)
(***************************************************************************)
\* What the constructor sets besides the ledger.
InitEnv(cutoff) ==
    /\ holder = <<>>
    /\ waiters = <<>>
    /\ outbox = <<>>
    /\ lastErr = "ok"
    /\ mining = FALSE
    /\ worker = <<>>
    /\ socket = FALSE
    /\ now = DayMs
    /\ ticks = 0
    /\ testMode \in BOOLEAN
    /\ powCutoff = cutoff
    /\ miningTimeout = <<>>
    /\ delayTimers = <<>>
    /\ minerStopped = FALSE
    /\ connectedPeers = {}
    /\ peerSockets = <<>>
    /\ reconnects = <<>>
    /\ checkInterval = <<>>
    /\ retryTimers = <<>>
    /\ stakingStopped = FALSE
    /\ stakeWeight = [a \in Address |-> <<>>]
    /\ newDifficulty = <<>>
    /\ createdTx = <<>>
    /\ fileText = "array"
    /\ running = TRUE

InitNode(cutoff) ==
    /\ \E n1 \in NonceSet, n2 \in NonceSet :
          /\ chain = <<CreateGenesisBlock(n2)>>
          /\ utxoSet = UpdateUTXOSet(<<CreateGenesisBlock(n1)>>, EmptyUTXOSet,
                                     CreateGenesisBlock(n1)).u
          /\ file = <<CreateGenesisBlock(n2)>>
    /\ pendingTransactions = <<>>
    /\ InitEnv(cutoff)

InitWith(cutoff) == InitNode(cutoff) /\ stakes = NoStakes

Init == InitWith(POW_CUTOFF_BLOCK)

\* The same node with the cutoff at the scale of the miner's specification.
InitMiner == InitWith(MINER_POW_CUTOFF)

(***************************************************************************)
(* The clock                                                               *)
(***************************************************************************)
Tick ==
    /\ ticks < MaxTicks
    /\ now' = now + DayMs
    /\ ticks' = ticks + 1
    /\ outbox' = <<>>
    /\ lastErr' = "ok"
    /\ UNCHANGED <<ledgerVars, lockVars, minerVars, envVars>>

(***************************************************************************)
(* Local calls on the ledger                                               *)
(***************************************************************************)
Result(r) ==
    /\ SetLedger(r.L)
    /\ lastErr' = r.err
    /\ outbox' = <<>>
    /\ UNCHANGED <<lockVars, minerVars, now, ticks, envVars>>

\* The number of transactions with inputs.
SpendCount(txs) == Cardinality({i \in 1..Len(txs) : Len(txs[i].inputs) > 0})

CanSpend ==
    /\ Len(pendingTransactions) < MaxPending
    /\ SpendCount(ChainTxs(chain)) + SpendCount(pendingTransactions) < MaxSpends

MinePending(minerAddress) ==
    /\ Len(chain) < MaxChain
    /\ \E nonces \in NonceChoices :
          Result(MinePendingTransactions(Ledger, minerAddress, now, testMode, nonces))

StakeCall(address, amount) ==
    /\ Len(chain) < MaxChain
    /\ CanSpend
    /\ \E nonces \in NonceChoices :
          Result(Stake(Ledger, address, amount, now, testMode, nonces))

UnstakeCall(address, amount) == Result(Unstake(Ledger, address, amount))

\* createTransaction followed by addTransaction of the transaction it returned.
CreateAndAdd(from, to, amount) ==
    /\ CanSpend
    /\ \E nonces \in NonceChoices :
          LET created == CreateTransaction(Ledger, from, to, amount, now, nonces[1])
          IN  IF created.err # "ok" THEN Result([L |-> Ledger, err |-> created.err])
              ELSE Result(AddTransaction(Ledger, created.tx))

(***************************************************************************)
(* What peers send                                                         *)
(***************************************************************************)
\* The block an honest peer mines on the local head: a coinbase for
\* "user1", the earliest timestamp that addMinedBlock accepts.
PeerNextBlock(L) ==
    LET lastBlock == GetLatestBlock(L)
        timestamp == lastBlock.timestamp + BLOCK_TIME * 1000
    IN  MineNonce(Block(timestamp,
                        <<Transaction(<<>>, <<TxOutput("user1", POW_BLOCK_REWARD)>>,
                                      timestamp, 1)>>,
                        lastBlock.hash, 0, CalculateNewDifficulty(L), Len(L.chain)))

\* The data of a BLOCK message.
PeerBlockKinds == {"next", "badPrev", "ahead"}

PeerBlock(L, kind) ==
    CASE kind = "next" -> PeerNextBlock(L)
      [] kind = "badPrev" -> [PeerNextBlock(L) EXCEPT !.previousHash = ZeroHash]
      [] kind = "ahead" -> [PeerNextBlock(L) EXCEPT !.index = Len(L.chain) + 1]

\* A chain of k blocks without transactions, each linked to the one before
\* it, all with timestamp 0, difficulty 0 and index 0.
RECURSIVE ForgedChain(_)
ForgedChain(k) ==
    IF k = 0 THEN <<>>
    ELSE LET c == ForgedChain(k - 1)
         IN  Append(c, Block(GenesisTimestamp, <<>>,
                             IF c = <<>> THEN ZeroHash ELSE c[Len(c)].hash, 0, 0, 0))

\* The local chain with the block of an honest peer on it.
HonestChain(L) == Append(L.chain, PeerNextBlock(L))

\* The data of a CHAIN message, and the argument of a replaceChain call.
PeerChains(L) == {HonestChain(L)} \cup {ForgedChain(k) : k \in 2..MaxForged}

(***************************************************************************)
(* P2PServer: the message handlers                                         *)
(***************************************************************************)
\* handleChainMessage: chain.map(...), every transaction rebuilt by
\* new Transaction(inputs, outputs) and every block by new Block(...).
RebuildChainTx(txs, t, nonce) ==
    [i \in 1..Len(txs) |-> Transaction(txs[i].inputs, txs[i].outputs, t, nonce)]

RebuildChain(data, t, nonce) ==
    [i \in 1..Len(data) |->
        Block(data[i].timestamp, RebuildChainTx(data[i].transactions, t, nonce),
              data[i].previousHash, data[i].nonce, data[i].powDifficulty, data[i].index)]

\* handleBlockMessage: the block rebuilt from the message, its transactions
\* by new Transaction(inputs, outputs, timestamp, nonce).
RebuildBlock(d) ==
    Block(d.timestamp,
          [i \in 1..Len(d.transactions) |->
              Transaction(d.transactions[i].inputs, d.transactions[i].outputs,
                          d.transactions[i].timestamp, d.transactions[i].nonce)],
          d.previousHash, d.nonce, d.powDifficulty, d.index)

Handler(type, blocks) == [type |-> type, blocks |-> blocks]

\* replaceLock.acquire(): the caller holds the lock at once when it is free,
\* and is queued otherwise.
Acquire(h) ==
    IF holder = <<>> THEN holder' = <<h>> /\ waiters' = waiters
    ELSE holder' = holder /\ waiters' = Append(waiters, h)

CanAcquire == holder = <<>> \/ Len(waiters) < MaxWaiters

\* replaceLock.release(): the lock goes to the first waiter.
\* A release() that only a handler without an error reaches: no finally.
ReleaseUnlessError ==
    IF lastErr' # "ok" THEN UNCHANGED lockVars
    ELSE IF waiters = <<>> THEN holder' = <<>> /\ waiters' = <<>>
    ELSE holder' = <<Head(waiters)>> /\ waiters' = Tail(waiters)

Release ==
    IF waiters = <<>> THEN holder' = <<>> /\ waiters' = <<>>
    ELSE holder' = <<Head(waiters)>> /\ waiters' = Tail(waiters)

\* handleChainMessage up to replaceLock.acquire().
ChainMessageCheck(blocks) == Len(blocks) > Len(chain)

RecvChain(data) ==
    /\ Len(data) <= MaxChain
    /\ CanAcquire
    /\ \E nonces \in NonceChoices :
          LET blocks == RebuildChain(data, now, nonces[1])
          IN  IF ChainMessageCheck(blocks) THEN Acquire(Handler("CHAIN", blocks))
              ELSE UNCHANGED lockVars
    /\ outbox' = <<>>
    /\ lastErr' = "ok"
    /\ UNCHANGED <<ledgerVars, minerVars, now, ticks, envVars>>

\* handleChainMessage between acquire() and release(): the temporary
\* Blockchain loads the snapshot file, takes the blocks and validates them
\* with its own, empty, stake registry.  The result is [L, err].
ChainMessageBody(L, blocks) ==
    IF LoadBlockchainError(L.file) # "ok" THEN [L |-> L, err |-> LoadBlockchainError(L.file)]
    ELSE IF IsChainValid(blocks, NoStakes)
    THEN [L |-> [L EXCEPT !.chain = blocks, !.pendingTransactions = <<>>], err |-> "ok"]
    ELSE [L |-> L, err |-> "ok"]

\* A handleBlockMessage without the check of the index: every block goes
\* on to replaceLock.acquire().
RecvBlockUnchecked(kind) ==
    /\ Len(chain) < MaxChain
    /\ CanAcquire
    /\ Acquire(Handler("BLOCK", <<RebuildBlock(PeerBlock(Ledger, kind))>>))
    /\ outbox' = <<>>
    /\ lastErr' = "ok"
    /\ UNCHANGED <<ledgerVars, minerVars, now, ticks, envVars>>

\* handleBlockMessage up to replaceLock.acquire().
RecvBlock(kind) ==
    /\ Len(chain) < MaxChain
    /\ CanAcquire
    /\ LET block == RebuildBlock(PeerBlock(Ledger, kind))
       IN  IF block.index > Len(chain)
           THEN outbox' = <<GetLatestBlockMsg>> /\ UNCHANGED lockVars
           ELSE outbox' = <<>> /\ Acquire(Handler("BLOCK", <<block>>))
    /\ lastErr' = "ok"
    /\ UNCHANGED <<ledgerVars, minerVars, now, ticks, envVars>>

\* A call of replaceChain(newChain) up to replaceLock.acquire().
ReplaceChainCall(newChain) ==
    /\ Len(newChain) <= MaxChain
    /\ CanAcquire
    /\ Acquire(Handler("REPLACE", newChain))
    /\ outbox' = <<>>
    /\ lastErr' = "ok"
    /\ UNCHANGED <<ledgerVars, minerVars, now, ticks, envVars>>

\* The holder of the lock runs to its release(): the rest of
\* handleChainMessage, of handleBlockMessage or of replaceChain.
HolderResult(h) ==
    CASE h.type = "CHAIN" -> ChainMessageBody(Ledger, h.blocks)
      [] h.type = "BLOCK" -> AddMinedBlock(Ledger, h.blocks[1], now)
      [] h.type = "REPLACE" -> ReplaceChainBody(Ledger, h.blocks, now)

\* A handler that broadcasts its block whether addMinedBlock threw or not.
BroadcastRegardless(h, r) ==
    IF h.type = "BLOCK" THEN <<BlockMsg(h.blocks[1])>> ELSE <<>>

\* handleBlockMessage: this.broadcast({type: BLOCK, data: block}) follows
\* addMinedBlock(block) in the try block, so an exception skips it.
BroadcastAfterAdd(h, r) ==
    IF h.type = "BLOCK" /\ r.err = "ok" THEN <<BlockMsg(h.blocks[1])>> ELSE <<>>

RunHolder ==
    /\ holder # <<>>
    /\ LET h == holder[1]
           r == HolderResult(h)
       IN  /\ SetLedger(r.L)
           /\ lastErr' = r.err
           /\ outbox' = BroadcastAfterAdd(h, r)
    /\ Release
    /\ UNCHANGED <<minerVars, now, ticks, envVars>>

(***************************************************************************)
(* Miner                                                                   *)
(***************************************************************************)
SetSocket ==
    /\ ~socket
    /\ socket' = TRUE
    /\ outbox' = <<>>
    /\ lastErr' = "ok"
    /\ UNCHANGED <<ledgerVars, lockVars, mining, worker, timerVars, now, ticks, envVars>>

\* miningWorker.cjs, mineBlock: the 'block' message the worker posts for its
\* workerData, started at time t.
MineBlock(difficulty, previousHash, transactions, minTimestamp, t) ==
    LET timestamp == Max(t, minTimestamp)
    IN  [timestamp |-> timestamp, transactions |-> transactions,
         previousHash |-> previousHash, nonce |-> difficulty, difficulty |-> difficulty,
         hash |-> HashData(timestamp, transactions, previousHash, difficulty)]

\* startMining past its early returns: mining is set and the worker is
\* created with a coinbase of 100 and the pending transactions.
CreateWorker(minerAddress) ==
    /\ mining' = TRUE
    /\ \E nonces \in NonceChoices :
          LET coinbaseTransaction ==
                  Transaction(<<>>, <<TxOutput(minerAddress, 100)>>, now, nonces[1])
          IN  worker' = <<MineBlock(CalculateNewDifficulty(Ledger),
                                    GetLatestBlock(Ledger).hash,
                                    <<coinbaseTransaction>> \o pendingTransactions,
                                    GetLatestBlock(Ledger).timestamp + BLOCK_TIME * 1000,
                                    now)>>

\* A startMining, called by a timer, without the two early returns.
StartMiningFromTimerUnguarded(minerAddress, dt) ==
    IF now - GetLatestBlock(Ledger).timestamp < BLOCK_TIME * 1000
    THEN /\ delayTimers' = Append(dt, GetLatestBlock(Ledger).timestamp + BLOCK_TIME * 1000)
         /\ UNCHANGED <<mining, worker>>
    ELSE delayTimers' = dt /\ Len(chain) < MaxChain /\ CreateWorker(minerAddress)

\* startMining(minerAddress) as a timer calls it, with the delay-path
\* timers dt pending at the call: it returns early, or arms one more
\* delay-path timer, which it stores nowhere, or creates the worker.
StartMiningFromTimer(minerAddress, dt) ==
    IF mining \/ ~CanAcceptPowBlock(Ledger)
    THEN delayTimers' = dt /\ UNCHANGED <<mining, worker>>
    ELSE IF now - GetLatestBlock(Ledger).timestamp < BLOCK_TIME * 1000
    THEN /\ delayTimers' = Append(dt, GetLatestBlock(Ledger).timestamp + BLOCK_TIME * 1000)
         /\ UNCHANGED <<mining, worker>>
    ELSE delayTimers' = dt /\ Len(chain) < MaxChain /\ CreateWorker(minerAddress)

\* A call of startMining(minerAddress) that creates the worker.
StartMining(minerAddress) ==
    /\ Len(chain) < MaxChain
    /\ ~mining
    /\ CanAcceptPowBlock(Ledger)
    /\ now - GetLatestBlock(Ledger).timestamp >= BLOCK_TIME * 1000
    /\ CreateWorker(minerAddress)
    /\ minerStopped' = FALSE
    /\ outbox' = <<>>
    /\ lastErr' = "ok"
    /\ UNCHANGED <<ledgerVars, lockVars, socket, miningTimeout, delayTimers, now, ticks,
                   envVars>>

\* A call of startMining(minerAddress) less than the target block time after
\* the latest block: setTimeout(() => this.startMining(minerAddress), delay).
StartMiningDelayed(minerAddress) ==
    /\ ~mining
    /\ CanAcceptPowBlock(Ledger)
    /\ now - GetLatestBlock(Ledger).timestamp < BLOCK_TIME * 1000
    /\ Len(delayTimers) < MaxTimers
    /\ delayTimers' = Append(delayTimers, GetLatestBlock(Ledger).timestamp + BLOCK_TIME * 1000)
    /\ minerStopped' = FALSE
    /\ outbox' = <<>>
    /\ lastErr' = "ok"
    /\ UNCHANGED <<ledgerVars, lockVars, mining, worker, socket, miningTimeout, now, ticks,
                   envVars>>

\* A timer of the delay path fires when it is due.
DelayTimerFires(minerAddress) ==
    /\ \E k \in 1..Len(delayTimers) :
          /\ now >= delayTimers[k]
          /\ StartMiningFromTimer(minerAddress, RemoveAt(delayTimers, k))
    /\ outbox' = <<>>
    /\ lastErr' = "ok"
    /\ UNCHANGED <<ledgerVars, lockVars, socket, miningTimeout, minerStopped, now, ticks,
                   envVars>>

\* The timer of scheduleMining fires when it is due: this.startMining() with
\* the address of the wallet.
MiningTimeoutFires(minerAddress) ==
    /\ miningTimeout # <<>>
    /\ now >= miningTimeout[1]
    /\ Len(delayTimers) < MaxTimers
    /\ miningTimeout' = <<>>
    /\ StartMiningFromTimer(minerAddress, delayTimers)
    /\ outbox' = <<>>
    /\ lastErr' = "ok"
    /\ UNCHANGED <<ledgerVars, lockVars, socket, minerStopped, now, ticks, envVars>>

\* worker.on('message') for the 'block' message: the block is rebuilt, its
\* transactions by new Transaction(inputs, outputs, timestamp), it keeps the
\* hash of the worker, and it is sent after addMinedBlock returned; then
\* scheduleMining arms miningTimeout.  When addMinedBlock throws, the catch
\* only clears mining.
WorkerBlock ==
    /\ worker # <<>>
    /\ \E nonces \in NonceChoices :
          LET minedBlock == worker[1]
              transactions ==
                  [i \in 1..Len(minedBlock.transactions) |->
                      Transaction(minedBlock.transactions[i].inputs,
                                  minedBlock.transactions[i].outputs,
                                  minedBlock.transactions[i].timestamp, nonces[1])]
              block == [Block(minedBlock.timestamp, transactions, minedBlock.previousHash,
                              minedBlock.nonce, minedBlock.difficulty, Len(chain))
                          EXCEPT !.hash = minedBlock.hash]
              r == AddMinedBlock(Ledger, block, now)
          IN  /\ SetLedger(r.L)
              /\ lastErr' = r.err
              /\ outbox' = IF r.err = "ok" /\ socket THEN <<BlockMsg(block)>> ELSE <<>>
              /\ miningTimeout' = IF r.err = "ok" THEN <<now + BLOCK_TIME * 1000>>
                                   ELSE miningTimeout
    /\ mining' = FALSE
    /\ worker' = <<>>
    /\ UNCHANGED <<lockVars, socket, delayTimers, minerStopped, now, ticks, envVars>>

\* stopMining: the worker is terminated and miningTimeout is cleared; the
\* timers of the delay path are not stored, so they stay.
StopMining ==
    /\ mining \/ worker # <<>> \/ miningTimeout # <<>> \/ delayTimers # <<>>
    /\ mining' = FALSE
    /\ worker' = <<>>
    /\ miningTimeout' = <<>>
    /\ minerStopped' = TRUE
    /\ outbox' = <<>>
    /\ lastErr' = "ok"
    /\ UNCHANGED <<ledgerVars, lockVars, socket, delayTimers, now, ticks, envVars>>

(***************************************************************************)
(* Peer connections.  A URL is [protocol, host, slash]: whether it is      *)
(* written with ws://, its host:port, and whether it ends with a slash.    *)
(* A WebSocket object is a record: url is <<>> for a socket the server     *)
(* accepted and <<the URL>> for a client socket; origin tells which        *)
(* handlers are attached to it ("inbound", "connect" for connectToPeers,   *)
(* "reconnect" for reconnectToPeer); key and attempt are the closure       *)
(* values of those handlers; state is "dialing", "open" or "failed"        *)
(* ('error' emitted, 'close' to follow); accepted tells that connectSocket *)
(* attached its handlers; listed tells that it is in this.sockets.         *)
(***************************************************************************)
maxAttempts == 10

baseDelay == 1000

Url(protocol, host, slash) == [protocol |-> protocol, host |-> host, slash |-> slash]

\* The written forms a caller passes for the one peer of the model.
PeerUrls == {Url(TRUE, "peer1", FALSE), Url(FALSE, "peer1", TRUE)}

\* normalizePeerUrl
NormalizePeerUrl(url) == [url EXCEPT !.protocol = TRUE, !.slash = FALSE]

\* WebSocket.url of a client socket: the href of the address, whose empty
\* path is written "/".
SocketUrl(address) == [address EXCEPT !.slash = TRUE]

RECURSIVE Pow2(_)
Pow2(n) == IF n = 0 THEN 1 ELSE 2 * Pow2(n - 1)

Min(a, b) == IF a <= b THEN a ELSE b

\* reconnectToPeer: the delay of an attempt.
ReconnectDelay(attempt) == Min(baseDelay * Pow2(attempt - 1), 30000)

\* reconnectToPeer(peer, attempt) up to its await: nothing past
\* maxAttempts, else one more call waiting in setTimeout.
ReconnectToPeer(timers, peer, attempt) ==
    IF attempt > maxAttempts THEN timers
    ELSE Append(timers, [peer |-> peer, attempt |-> attempt,
                         delay |-> ReconnectDelay(attempt)])

\* this.sockets
Sockets == SelectSeq(peerSockets, LAMBDA sock : sock.listed)

ChainMsg == [type |-> "CHAIN", data |-> chain]

\* connectSocket(socket): the socket is pushed, the handlers are attached
\* and the chain is sent to it.
ConnectSocket(sock) == [sock EXCEPT !.state = "open", !.accepted = TRUE, !.listed = TRUE]

\* server.on('connection'): connectSocket on a socket without url.
AcceptPeer ==
    /\ Len(peerSockets) < MaxSockets
    /\ peerSockets' = Append(peerSockets,
                             ConnectSocket([url |-> <<>>, origin |-> "inbound", key |-> <<>>,
                                            attempt |-> 0, state |-> "dialing",
                                            reconnecting |-> FALSE, accepted |-> FALSE,
                                            listed |-> FALSE]))
    /\ outbox' = <<ChainMsg>>
    /\ lastErr' = "ok"
    /\ UNCHANGED <<ledgerVars, lockVars, minerVars, now, ticks, testMode, powCutoff, callVars, diskVars,
                   connectedPeers, reconnects, stakingVars>>

\* connectToPeers([peer])
ConnectToPeers(peer) ==
    LET normalizedPeer == NormalizePeerUrl(peer)
    IN  /\ IF normalizedPeer \in connectedPeers
           THEN UNCHANGED <<connectedPeers, peerSockets>>
           ELSE /\ Len(peerSockets) < MaxSockets
                /\ connectedPeers' = connectedPeers \cup {normalizedPeer}
                /\ peerSockets' =
                       Append(peerSockets,
                              [url |-> <<SocketUrl(normalizedPeer)>>, origin |-> "connect",
                               key |-> <<normalizedPeer>>, attempt |-> 0,
                               state |-> "dialing", reconnecting |-> FALSE,
                               accepted |-> FALSE, listed |-> FALSE])
        /\ outbox' = <<>>
        /\ lastErr' = "ok"
        /\ UNCHANGED <<ledgerVars, lockVars, minerVars, now, ticks, testMode, powCutoff, callVars, diskVars,
                       reconnects, stakingVars>>

\* 'open' on a client socket: the handler of reconnectToPeer clears
\* reconnecting, and both 'open' handlers call connectSocket.
SocketOpen(i) ==
    /\ i \in 1..Len(peerSockets)
    /\ peerSockets[i].state = "dialing"
    /\ peerSockets' = [peerSockets EXCEPT
                          ![i] = ConnectSocket([@ EXCEPT !.reconnecting = FALSE])]
    /\ outbox' = <<ChainMsg>>
    /\ lastErr' = "ok"
    /\ UNCHANGED <<ledgerVars, lockVars, minerVars, now, ticks, testMode, powCutoff, callVars, diskVars,
                   connectedPeers, reconnects, stakingVars>>

\* 'error' on a socket, dialing or open; 'close' follows.  The handler of
\* connectToPeers deletes the peer, the handler of reconnectToPeer starts the
\* next attempt, the handler of connectSocket takes the socket off the list.
SocketError(i) ==
    /\ i \in 1..Len(peerSockets)
    /\ peerSockets[i].state \in {"dialing", "open"}
    /\ LET sock == peerSockets[i]
       IN  /\ connectedPeers' = IF sock.origin = "connect"
                                THEN connectedPeers \ {sock.key[1]}
                                ELSE connectedPeers
           /\ reconnects' = IF sock.origin = "reconnect"
                            THEN ReconnectToPeer(reconnects, sock.url[1], sock.attempt + 1)
                            ELSE reconnects
           /\ Len(reconnects') <= MaxReconnects
           /\ peerSockets' = [peerSockets EXCEPT ![i].state = "failed", ![i].listed = FALSE]
    /\ outbox' = <<>>
    /\ lastErr' = "Socket connection error"
    /\ UNCHANGED <<ledgerVars, lockVars, minerVars, now, ticks, testMode, powCutoff, callVars, diskVars,
                   stakingVars>>

\* 'close' on a socket that was open or has failed.  The handler of
\* connectToPeers deletes the peer; the handler of connectSocket takes the
\* socket off the list and, for a socket with a url that is not
\* reconnecting, calls reconnectToPeer(socket.url).
SocketClose(i) ==
    /\ i \in 1..Len(peerSockets)
    /\ peerSockets[i].state \in {"open", "failed"}
    /\ LET sock == peerSockets[i]
       IN  /\ connectedPeers' = IF sock.origin = "connect"
                                THEN connectedPeers \ {sock.key[1]}
                                ELSE connectedPeers
           /\ reconnects' = IF sock.accepted /\ sock.url # <<>> /\ ~sock.reconnecting
                            THEN ReconnectToPeer(reconnects, sock.url[1], 1)
                            ELSE reconnects
           /\ Len(reconnects') <= MaxReconnects
           /\ peerSockets' = RemoveAt(peerSockets, i)
    /\ outbox' = <<>>
    /\ lastErr' = "ok"
    /\ UNCHANGED <<ledgerVars, lockVars, minerVars, now, ticks, testMode, powCutoff, callVars, diskVars,
                   stakingVars>>

\* The setTimeout of a reconnectToPeer call fires: new WebSocket(peer), marked
\* reconnecting; connectedPeers is neither read nor written.
ReconnectTimerFires(j) ==
    /\ j \in 1..Len(reconnects)
    /\ Len(peerSockets) < MaxSockets
    /\ reconnects' = RemoveAt(reconnects, j)
    /\ peerSockets' = Append(peerSockets,
                             [url |-> <<SocketUrl(reconnects[j].peer)>>,
                              origin |-> "reconnect", key |-> <<>>,
                              attempt |-> reconnects[j].attempt, state |-> "dialing",
                              reconnecting |-> TRUE, accepted |-> FALSE, listed |-> FALSE])
    /\ outbox' = <<>>
    /\ lastErr' = "ok"
    /\ UNCHANGED <<ledgerVars, lockVars, minerVars, now, ticks, testMode, powCutoff, callVars, diskVars,
                   connectedPeers, stakingVars>>

(***************************************************************************)
(* StakingService                                                          *)
(***************************************************************************)
CHECK_FREQUENCY == 60000

RetryDelay == 5000

\* tryGenerateStakeBlock at time t: generateStakeBlock, then addMinedBlock
\* of the block it returned.  The result is [L, err]; an err other than "ok"
\* is the exception the catch block logs.
TryGenerateStakeBlock(L, address, t, test, nonces) ==
    LET g == GenerateStakeBlock(L, address, t, test, nonces)
    IN  IF g.block = <<>> THEN [L |-> g.L, err |-> "ok"]
        ELSE AddMinedBlock(g.L, g.block[1], t)

\* One run of tryGenerateStakeBlock with the retry timers rt pending: the
\* catch block arms one more, which it stores nowhere.
RunTryGenerate(address, rt) ==
    /\ Len(chain) < MaxChain
    /\ \E nonces \in NonceChoices :
          LET r == TryGenerateStakeBlock(Ledger, address, now, testMode, nonces)
          IN  /\ SetLedger(r.L)
              /\ lastErr' = r.err
              /\ retryTimers' = IF r.err = "ok" THEN rt ELSE Append(rt, now + RetryDelay)
    /\ Len(retryTimers') <= MaxTimers
    /\ outbox' = <<>>

\* start(): nothing when the ticker is set; else setInterval and the
\* initial check.
StakingStart(address) ==
    /\ IF checkInterval # <<>>
       THEN /\ UNCHANGED <<ledgerVars, checkInterval, retryTimers>>
            /\ lastErr' = "ok"
            /\ outbox' = <<>>
       ELSE /\ checkInterval' = <<now + CHECK_FREQUENCY>>
            /\ RunTryGenerate(address, retryTimers)
    /\ stakingStopped' = FALSE
    /\ UNCHANGED <<lockVars, minerVars, now, ticks, testMode, powCutoff, callVars, diskVars, peerVars>>

\* stop(): clearInterval on the ticker; the retry timers are not stored, so
\* they stay.
StakingStop ==
    /\ checkInterval # <<>> \/ retryTimers # <<>>
    /\ checkInterval' = <<>>
    /\ stakingStopped' = TRUE
    /\ lastErr' = "ok"
    /\ outbox' = <<>>
    /\ UNCHANGED <<ledgerVars, lockVars, minerVars, now, ticks, testMode, powCutoff, callVars, diskVars,
                   peerVars, retryTimers>>

\* The ticker fires when it is due.
IntervalFires(address) ==
    /\ checkInterval # <<>>
    /\ now >= checkInterval[1]
    /\ checkInterval' = <<now + CHECK_FREQUENCY>>
    /\ RunTryGenerate(address, retryTimers)
    /\ UNCHANGED <<lockVars, minerVars, now, ticks, testMode, powCutoff, callVars, diskVars, peerVars,
                   stakingStopped>>

\* A retry timer fires when it is due.
RetryTimerFires(address) ==
    /\ \E k \in 1..Len(retryTimers) :
          /\ now >= retryTimers[k]
          /\ RunTryGenerate(address, RemoveAt(retryTimers, k))
    /\ UNCHANGED <<lockVars, minerVars, now, ticks, testMode, powCutoff, callVars, diskVars, peerVars,
                   checkInterval, stakingStopped>>

(***************************************************************************)
(* Restart: the process ends and a new one constructs its Blockchain from  *)
(* the snapshot file.                                                      *)
(***************************************************************************)
\* loadBlockchain: the chain reconstructed from the snapshot f.  Every
\* transaction is new Transaction(inputs, outputs) with the stored timestamp
\* assigned afterwards, so it has a fresh Math.random() nonce; every block
\* keeps its stored hash.
LoadedChain(f, nonce) ==
    [i \in 1..Len(f) |->
        [Block(f[i].timestamp,
               [j \in 1..Len(f[i].transactions) |->
                   Transaction(f[i].transactions[j].inputs, f[i].transactions[j].outputs,
                               f[i].transactions[j].timestamp, nonce)],
               f[i].previousHash, f[i].nonce, f[i].powDifficulty, f[i].index)
            EXCEPT !.hash = f[i].hash]]

\* new Blockchain() on a node with a snapshot file: loadBlockchain installs
\* the reconstructed chain and rebuilds the UTXO index from it.  When
\* loadBlockchain throws, the constructor throws and no process comes up.
Restart ==
    /\ fileText = "array"
    /\ \E nonces \in NonceChoices :
          LET reconstructedChain == LoadedChain(file, nonces[1])
              st == UpdateUTXOBlocks(reconstructedChain, [u |-> EmptyUTXOSet, ok |-> TRUE],
                                     reconstructedChain)
          IN  /\ LoadBlockchainError(reconstructedChain) = "ok"
              /\ st.ok
              /\ chain' = reconstructedChain
              /\ utxoSet' = st.u
    /\ pendingTransactions' = <<>>
    /\ stakes' = NoStakes
    /\ holder' = <<>>
    /\ waiters' = <<>>
    /\ outbox' = <<>>
    /\ lastErr' = "ok"
    /\ mining' = FALSE
    /\ worker' = <<>>
    /\ socket' = FALSE
    /\ miningTimeout' = <<>>
    /\ delayTimers' = <<>>
    /\ minerStopped' = FALSE
    /\ connectedPeers' = {}
    /\ peerSockets' = <<>>
    /\ reconnects' = <<>>
    /\ checkInterval' = <<>>
    /\ retryTimers' = <<>>
    /\ stakingStopped' = FALSE
    /\ running' = TRUE
    /\ UNCHANGED <<file, fileText, now, ticks, testMode, powCutoff, callVars>>

(***************************************************************************)
(* The node.  Spec is the ledger under the calls of its own process; SpecNet  *)
(* is the ledger under the messages of peers, replaceChain and the miner.  *)
(***************************************************************************)
Next ==
    \/ Tick
    \/ MinePending("miner1")
    \/ StakeCall("miner1", MIN_STAKE_AMOUNT)
    \/ UnstakeCall("miner1", MIN_STAKE_AMOUNT)
    \/ CreateAndAdd("genesis", "user1", MIN_STAKE_AMOUNT)

Spec == Init /\ [][Next]_vars

NextNet ==
    \/ \E data \in PeerChains(Ledger) : RecvChain(data)
    \/ \E kind \in PeerBlockKinds : RecvBlock(kind)
    \/ \E newChain \in PeerChains(Ledger) : ReplaceChainCall(newChain)
    \/ RunHolder
    \/ SetSocket
    \/ StartMining("miner1")
    \/ WorkerBlock
    \/ StopMining

\* No step of NextNet reads testMode, so the node of SpecNet is one that
\* runs outside the test environment.
InitNet == Init /\ ~testMode

SpecNet == InitNet /\ [][NextNet]_vars

\* SpecSync is the ledger of a node with one peer connected to it, under the
\* transactions of its own process and the messages that arrive on the
\* socket.
NextSync ==
    \/ peerSockets = <<>> /\ AcceptPeer
    \/ CreateAndAdd("genesis", "user1", MIN_STAKE_AMOUNT)
    \/ \E data \in PeerChains(Ledger) : Sockets # <<>> /\ RecvChain(data)
    \/ \E kind \in PeerBlockKinds : Sockets # <<>> /\ RecvBlock(kind)
    \/ RunHolder

SpecSync == Init /\ [][NextSync]_vars

\* SpecStore is the ledger under the transactions of its own process, the
\* miner, whose blocks addMinedBlock saves, and restarts of the process.
NextStore ==
    \/ CreateAndAdd("genesis", "user1", MIN_STAKE_AMOUNT)
    \/ StartMining("miner1")
    \/ WorkerBlock
    \/ Restart

SpecStore == Init /\ [][NextStore]_vars

\* SpecMiner is the miner alone on its ledger, under the calls of startMining
\* and stopMining, its timers, its worker and the clock.
NextMiner ==
    \/ Tick
    \/ StartMining("miner1")
    \/ StartMiningDelayed("miner1")
    \/ DelayTimerFires("miner1")
    \/ MiningTimeoutFires("miner1")
    \/ WorkerBlock
    \/ StopMining

SpecMiner == InitMiner /\ [][NextMiner]_vars

\* SpecStaking is the ledger under the minePendingTransactions, stake and
\* unstake calls of its own process, the staking service and the clock.
NextStaking ==
    \/ Tick
    \/ MinePending("miner1")
    \/ StakeCall("miner1", MIN_STAKE_AMOUNT)
    \/ UnstakeCall("miner1", MIN_STAKE_AMOUNT)
    \/ StakingStart("miner1")
    \/ StakingStop
    \/ IntervalFires("miner1")
    \/ RetryTimerFires("miner1")

SpecStaking == Init /\ [][NextStaking]_vars

\* SpecPeer is the server under connectToPeers, the events of its client
\* sockets and its reconnect timers.
NextPeer ==
    \/ \E peer \in PeerUrls : ConnectToPeers(peer)
    \/ \E i \in 1..MaxSockets : SocketOpen(i)
    \/ \E i \in 1..MaxSockets : SocketError(i)
    \/ \E i \in 1..MaxSockets : SocketClose(i)
    \/ \E j \in 1..MaxReconnects : ReconnectTimerFires(j)

SpecPeer == Init /\ [][NextPeer]_vars

(***************************************************************************)
(* The properties of the specification                                     *)
(***************************************************************************)
\* The replay of the transactions of a chain from an empty index, in chain
\* order: per transaction, the outputs its inputs reference are removed and
\* its outputs are added.
ReplayChain(c) == UpdateUTXOBlocks(c, [u |-> EmptyUTXOSet, ok |-> TRUE], c).u

\* The outputs referenced by the inputs of all transactions of a chain.
SpentOutpoints(c) ==
    LET txs == ChainTxs(c)
    IN  [k \in {<<i, j>> \in (1..Len(txs)) \X (1..MaxPending + 2) : j <= Len(txs[i].inputs)} |->
            <<txs[k[1]].inputs[k[2]].previousTx, txs[k[1]].inputs[k[2]].outputIndex>>]

IsFixedGenesis(b) ==
    /\ b.previousHash = ZeroHash
    /\ b.index = 0
    /\ b.timestamp = GenesisTimestamp
    /\ Len(b.transactions) = 1
    /\ b.transactions[1].inputs = <<>>
    /\ b.transactions[1].outputs = <<TxOutput("genesis", GenesisAmount)>>

LinksAndIndexes(c) ==
    \A i \in 2..Len(c) : c[i].previousHash = c[i - 1].hash /\ c[i].index = i - 1

BlockSpacing(c) ==
    \A i \in 2..Len(c) : c[i].timestamp - c[i - 1].timestamp >= BLOCK_TIME * 1000

\* The positions at or past the cutoff that hold a proof-of-work block.
PowPastCutoff(c) == {i \in 1..Len(c) : i - 1 >= powCutoff /\ IsProofOfWork(c[i])}

\* The chain invariants a replacement chain has to satisfy.
ChainInvariants(c) ==
    /\ c # <<>>
    /\ IsFixedGenesis(c[1])
    /\ LinksAndIndexes(c)
    /\ BlockSpacing(c)
    /\ Cardinality(PowPastCutoff(c)) <= 1
    /\ \A i \in 2..Len(c) : IsProofOfWork(c[i]) => BlockIsValid(c[i])

\* C1: in every reachable state every block after the first names the hash
\* of the block before it as its previous hash and has its position as index.
C1_LinksAndIndexes == LinksAndIndexes(chain)

\* C2: a step that changes the chain and leaves the replace-mutex free keeps
\* the UTXO index equal to the replay of the chain, when it was equal before.
C2_UtxoIsReplay ==
    [][(utxoSet = ReplayChain(chain) /\ chain' # chain /\ holder' = <<>>)
          => utxoSet' = ReplayChain(chain')]_vars

\* C3: a CHAIN handler swaps the chain only for a strictly longer one, so the
\* length of the chain never decreases.
C3_LengthNeverDecreases == [][Len(chain') >= Len(chain)]_vars

\* C4: a chain installed by replaceChain or by the CHAIN handler is strictly
\* longer than the chain it replaces and satisfies all chain invariants.
C4_ReplacementOnlyIfValid ==
    [][(RunHolder /\ holder[1].type \in {"CHAIN", "REPLACE"} /\ chain' # chain)
          => (Len(chain') > Len(chain) /\ ChainInvariants(chain'))]_vars

\* C5: no output is referenced by two inputs of the transactions of the chain.
C5_NoDoubleSpend ==
    \A k1, k2 \in DOMAIN SpentOutpoints(chain) :
        k1 # k2 => SpentOutpoints(chain)[k1] # SpentOutpoints(chain)[k2]

\* C6: for every address the balance, the sum over its entries of the UTXO
\* index, equals the total balance, the replay over the whole chain.
C6_BalanceIsTotalBalance ==
    \A a \in Address : GetBalance(Ledger, a) = GetTotalBalance(Ledger, a)

\* C7: at most one proof-of-work block stands at an index at or past the
\* cutoff; every other block there is a proof-of-stake block.
C7_PosAfterCutoff == Cardinality(PowPastCutoff(chain)) <= 1

\* C8: the timestamps of consecutive blocks are at least BLOCK_TIME apart.
C8_BlockSpacing == BlockSpacing(chain)

\* C9: the first block of the chain is the fixed genesis block.
C9_FixedGenesis == IsFixedGenesis(chain[1])

C11_RejectedBlockChangesNothing ==
    [][(/\ RunHolder
        /\ holder[1].type = "BLOCK"
        /\ AddMinedBlockError(Ledger, holder[1].blocks[1], now) # "ok")
       => /\ chain' = chain
          /\ pendingTransactions' = pendingTransactions
          /\ utxoSet' = utxoSet
          /\ outbox' = <<>>
          /\ lastErr' = AddMinedBlockError(Ledger, holder[1].blocks[1], now)
          /\ holder' = (IF waiters = <<>> THEN <<>> ELSE <<Head(waiters)>>)
          /\ waiters' = (IF waiters = <<>> THEN <<>> ELSE Tail(waiters))
          /\ peerSockets' = peerSockets]_vars

\* A block with a wrong previous hash has been rejected while a transaction
\* was pending and a peer was connected.
C11_Witness ==
    /\ lastErr = "Invalid previous hash"
    /\ holder = <<>>
    /\ pendingTransactions # <<>>
    /\ Sockets # <<>>

\* C12: after a replacement of the chain, by a CHAIN message or by
\* replaceChain, the pending pool is the pool of before without the
\* transactions that are in the new chain.
C12_PendingKeptAcrossReplacement ==
    [][(/\ RunHolder
        /\ holder[1].type \in {"CHAIN", "REPLACE"}
        /\ chain' # chain)
       => pendingTransactions' = FilterPending(pendingTransactions, chain')]_vars

\* C13: after addMinedBlock appended the block of a BLOCK message, every
\* transaction that was pending and is not in that block is still pending.
C13_PendingKeptAcrossAppend ==
    [][(/\ RunHolder
        /\ holder[1].type = "BLOCK"
        /\ chain' = Append(chain, holder[1].blocks[1]))
       => \A i \in 1..Len(pendingTransactions) :
             (\A j \in 1..Len(holder[1].blocks[1].transactions) :
                 TxCalculateHash(holder[1].blocks[1].transactions[j])
                     # TxCalculateHash(pendingTransactions[i]))
             => \E k \in 1..Len(pendingTransactions') :
                   pendingTransactions'[k] = pendingTransactions[i]]_vars

\* C14: after every step that changed the chain without an error (a block
\* appended by addMinedBlock, minePendingTransactions or stake, or a chain
\* swapped in) the snapshot file holds the chain in memory.
C14_SnapshotIsChain ==
    [][(chain' # chain /\ lastErr' = "ok") => file' = chain']_vars

\* C15: when the snapshot file holds the chain in memory, a process that
\* is constructed from the file has the same chain and the same UTXO index.
C15_ReloadIsIdentity ==
    [][(Restart /\ file = chain) => (chain' = chain /\ utxoSet' = utxoSet)]_vars

\* The handlers that hold the replace-mutex or wait for it.
Unfinished == holder \o waiters

\* C16: messages of one socket are handled in order: when the handler of a
\* BLOCK message makes its first check (the index of the block against the
\* length of the chain), no CHAIN message that the socket delivered before it
\* is still being handled.
C16_BlockCheckedAfterChainHandled ==
    [][(\E kind \in PeerBlockKinds : RecvBlock(kind))
       => \A i \in 1..Len(Unfinished) : Unfinished[i].type # "CHAIN"]_vars

\* The delays of the reconnect attempts 1 to 10, in ms.
BackoffDelays == <<1000, 2000, 4000, 8000, 16000, 30000, 30000, 30000, 30000, 30000>>

\* The reconnect sequences in progress: the reconnectToPeer calls that wait
\* for their delay and the sockets they are dialing.
SequencesInProgress ==
    Len(reconnects)
    + Cardinality({i \in 1..Len(peerSockets) :
                      peerSockets[i].origin = "reconnect" /\ peerSockets[i].state = "dialing"})

\* C17: reconnect attempt k waits min(1000 * 2^(k-1), 30000) ms, no attempt
\* past the tenth is scheduled, and at most one reconnect sequence is in
\* progress for the peer.
C17_ReconnectBackoff ==
    /\ \A j \in 1..Len(reconnects) :
          /\ reconnects[j].attempt \in 1..Len(BackoffDelays)
          /\ reconnects[j].delay = BackoffDelays[reconnects[j].attempt]
    /\ SequencesInProgress <= 1

\* The client sockets to the normalized URL u that are dialing or open.
Outbound(u) ==
    {i \in 1..Len(peerSockets) :
        /\ peerSockets[i].url # <<>>
        /\ NormalizePeerUrl(peerSockets[i].url[1]) = u
        /\ peerSockets[i].state \in {"dialing", "open"}}

\* C18: per normalized peer URL at most one client socket is dialing or
\* open, and the URL is in connectedPeers exactly while there is one.
C18_OneOutboundPerPeer ==
    \A u \in {NormalizePeerUrl(peer) : peer \in PeerUrls} :
        /\ Cardinality(Outbound(u)) <= 1
        /\ u \in connectedPeers <=> Outbound(u) # {}

\* C19: from the return of stopMining until the next call of startMining the
\* miner has no worker, so that none is started and no block is submitted.
C19_StoppedMinerIdle == minerStopped => (worker = <<>> /\ ~mining)

\* C20: from the return of stop() until the next call of start() the
\* service does not run tryGenerateStakeBlock, which calls
\* generateStakeBlock and addMinedBlock: neither the ticker nor a retry timer
\* fires.
C20_StoppedServiceIdle ==
    [][(IntervalFires("miner1") \/ RetryTimerFires("miner1")) => ~stakingStopped]_vars

\* C21: a stake call that fails, for whatever reason, leaves the chain, the
\* pending transactions, the UTXO index, the stake registry and the snapshot
\* as they were before the call.
C21_FailedStakeChangesNothing ==
    [][(StakeCall("miner1", MIN_STAKE_AMOUNT) /\ lastErr' # "ok")
          => UNCHANGED ledgerVars]_vars

\* The address has an unspent output of at least its staked amount.
HoldsStakeableOutput(address) ==
    \E i \in 1..Len(GetUTXOs(Ledger, address)) :
        GetUTXOs(Ledger, address)[i].output.amount >= GetStake(Ledger, address)

\* C22: in the PoS phase, in test mode, minePendingTransactions of an
\* address that has staked and holds an unspent output of at least its staked
\* amount appends exactly one block, the new head is a PoS block and the
\* stake of the address is unchanged; a successful stake call adds its amount
\* to the stake of the address.
C22_PosTransition ==
    [][/\ (/\ MinePending("miner1")
           /\ testMode
           /\ Len(chain) >= powCutoff
           /\ HasStake(Ledger, "miner1")
           /\ HoldsStakeableOutput("miner1"))
          => /\ lastErr' = "ok"
             /\ Len(chain') = Len(chain) + 1
             /\ SubSeq(chain', 1, Len(chain)) = chain
             /\ IsProofOfStake(chain'[Len(chain')])
             /\ stakes'["miner1"].amount = stakes["miner1"].amount
       /\ (StakeCall("miner1", MIN_STAKE_AMOUNT) /\ lastErr' = "ok")
          => stakes'["miner1"].amount = stakes["miner1"].amount + MIN_STAKE_AMOUNT
      ]_vars

C22_Witness ==
    /\ testMode
    /\ lastErr = "ok"
    /\ Len(chain) > powCutoff
    /\ IsProofOfStake(chain[Len(chain)])
    /\ ~IsProofOfStake(chain[Len(chain) - 1])
    /\ stakes["miner1"].amount = MIN_STAKE_AMOUNT
    /\ pendingTransactions = <<>>

\* The ledger has only seen minePendingTransactions since the genesis block:
\* no transaction of the chain has inputs, nothing is pending and nothing is
\* staked.
OnlyMined ==
    /\ SpendCount(ChainTxs(chain)) = 0
    /\ pendingTransactions = <<>>
    /\ stakes = NoStakes

\* C23: on a ledger that has only seen minePendingTransactions since the
\* genesis block, minePendingTransactions(miner) with nothing pending extends
\* the chain by exactly one block and raises getTotalBalance(miner) by
\* exactly POW_BLOCK_REWARD, so that after N calls the chain has N + 1 blocks
\* and getTotalBalance(miner) is N * POW_BLOCK_REWARD.
C23_PowRewardAccrual ==
    [][(MinePending("miner1") /\ OnlyMined)
          => /\ lastErr' = "ok"
             /\ Len(chain') = Len(chain) + 1
             /\ SubSeq(chain', 1, Len(chain)) = chain
             /\ GetTotalBalance(Ledger', "miner1")
                    = GetTotalBalance(Ledger, "miner1") + POW_BLOCK_REWARD
             /\ GetTotalBalance(Ledger', "miner1") = Len(chain) * POW_BLOCK_REWARD
      ]_vars

C23_Witness ==
    /\ OnlyMined
    /\ Len(chain) = POW_CUTOFF_BLOCK + 1
    /\ GetTotalBalance(Ledger, "miner1") = POW_CUTOFF_BLOCK * POW_BLOCK_REWARD

\* C24: isChainValid() returns true in every state reached from the genesis
\* ledger by minePendingTransactions, stake, unstake and transactions.
C24_ChainStaysValid == IsChainValid(chain, stakes)

(***************************************************************************)
(* Stake weight.  Math.pow(1.1, d) is a double; for the amounts and days   *)
(* below, Math.floor(amount * Math.pow(1.1, d)) is the floor of the exact  *)
(* product amount * 11^d / 10^d, which is what the model computes.         *)
(***************************************************************************)
MaxWeightDays == 3

MaxExtraStake == 4
MaxDifficultyChain == 11

RECURSIVE Pow(_, _)
Pow(b, n) == IF n = 0 THEN 1 ELSE b * Pow(b, n - 1)

\* A calculateStakeWeight that ignores the age of the stake.
CalculateStakeWeightFlat(L, address) == GetStake(L, address)

\* calculateStakeWeight(address).
CalculateStakeWeight(L, address) ==
    IF ~HasStake(L, address) THEN 0
    ELSE LET stake == L.stakes[address]
             elapsedMs == stake.lastBlockTime - stake.timestamp
             elapsedDays == Max(0, elapsedMs \div DayMs)
         IN  IF elapsedDays > 0
             THEN (stake.amount * Pow(11, elapsedDays)) \div Pow(10, elapsedDays)
             ELSE stake.amount

\* A call of calculateStakeWeight(address) from outside.
CalculateStakeWeightCall(address) ==
    /\ stakeWeight' = [stakeWeight EXCEPT ![address] = <<CalculateStakeWeight(Ledger, address)>>]
    /\ UNCHANGED <<ledgerVars, lockVars, outbox, lastErr, minerVars, now, ticks, testMode,
                   powCutoff, newDifficulty, createdTx, diskVars, peerVars, stakingVars>>

\* The times between the start of a stake and its last block: around every
\* day boundary up to MaxWeightDays, and before the start.
ElapsedChoices ==
    {d * DayMs + r : d \in 0..MaxWeightDays, r \in {0, 1, DayMs - 1}} \cup {0 - 1, 0 - DayMs}

\* Two stakes of the same amount that started at the same time and saw their
\* last block at times of their own.
InitWeight ==
    /\ InitNode(POW_CUTOFF_BLOCK)
    /\ \E k \in 0..MaxExtraStake, e1 \in ElapsedChoices, e2 \in ElapsedChoices :
          stakes = [NoStakes EXCEPT
                       !["miner1"] = [amount |-> MIN_STAKE_AMOUNT + k, timestamp |-> DayMs,
                                      lastBlockTime |-> DayMs + e1],
                       !["user1"] = [amount |-> MIN_STAKE_AMOUNT + k, timestamp |-> DayMs,
                                     lastBlockTime |-> DayMs + e2]]

NextWeight == CalculateStakeWeightCall("miner1") \/ CalculateStakeWeightCall("user1")

SpecWeight == InitWeight /\ [][NextWeight]_vars

\* The time between the start of the stake of an address and its last block.
Elapsed(address) == stakes[address].lastBlockTime - stakes[address].timestamp

\* C25: of two stakes of the same amount and start, the one with the longer
\* time between start and last block has at least the weight of the other,
\* and one with a full day or more has strictly more weight than one with
\* less than a day.
C25_WeightMonotone ==
    \A a \in Address, b \in Address :
        (/\ stakeWeight[a] # <<>> /\ stakeWeight[b] # <<>>
         /\ stakes[a].amount = stakes[b].amount
         /\ stakes[a].timestamp = stakes[b].timestamp
         /\ Elapsed(a) <= Elapsed(b))
        => /\ stakeWeight[a][1] <= stakeWeight[b][1]
           /\ (Elapsed(a) < DayMs /\ Elapsed(b) >= DayMs)
                 => stakeWeight[a][1] < stakeWeight[b][1]
           /\ Elapsed(a) < DayMs => stakeWeight[a][1] = stakes[a].amount

C25_Witness ==
    /\ stakeWeight["miner1"] # <<>> /\ stakeWeight["user1"] # <<>>
    /\ Elapsed("miner1") = DayMs - 1
    /\ Elapsed("user1") = MaxWeightDays * DayMs
    /\ stakeWeight["miner1"][1] = MIN_STAKE_AMOUNT + 1
    /\ stakeWeight["user1"][1] = 134

\* C26: when handleBlockMessage runs for a block that is already in the
\* chain (the same BLOCK message delivered a second time), the chain, the
\* UTXO index and the pending transactions stay as they are, addMinedBlock
\* throws and nothing is broadcast.
C26_SecondDeliveryChangesNothing ==
    [][(/\ RunHolder
        /\ holder[1].type = "BLOCK"
        /\ \E i \in 1..Len(chain) : chain[i] = holder[1].blocks[1])
          => /\ UNCHANGED <<chain, utxoSet, pendingTransactions>>
             /\ lastErr' # "ok"
             /\ outbox' = <<>>
      ]_vars

\* The block at the head of the chain came in a BLOCK message, and a second
\* delivery of it has just been refused.
C26_Witness ==
    /\ lastErr = "Block created too quickly"
    /\ holder = <<>>
    /\ Len(chain) >= 2
    /\ chain[Len(chain)] = RebuildBlock(PeerNextBlock([Ledger EXCEPT !.chain = SubSeq(chain, 1, Len(chain) - 1)]))

(***************************************************************************)
(* The messages whose handlers run to their end in the turn of the         *)
(* 'message' event: TRANSACTION, STAKE, UNSTAKE, and what cannot be parsed *)
(* or mapped.  lastErr is what the catch of the handler logged.            *)
(***************************************************************************)
\* The data of the TRANSACTION messages of a peer: a signed payment of
\* "genesis", the same payment without its signatures, and one without
\* inputs.
PeerTransactions(L) ==
    LET created == CreateTransaction(L, "genesis", "user1", MIN_STAKE_AMOUNT, 0, 1)
    IN  IF created.err # "ok" THEN {}
        ELSE {created.tx,
              [created.tx EXCEPT !.inputs =
                  [i \in 1..Len(created.tx.inputs) |->
                      [created.tx.inputs[i] EXCEPT !.signature = 0]]],
              [created.tx EXCEPT !.inputs = <<>>]}

\* The data of the STAKE and UNSTAKE messages of a peer.
StakeData ==
    {[address |-> "genesis", amount |-> MIN_STAKE_AMOUNT],
     [address |-> "genesis", amount |-> MIN_STAKE_AMOUNT - 1],
     [address |-> "user1", amount |-> MIN_STAKE_AMOUNT]}

\* Text that JSON.parse rejects, and CHAIN and BLOCK messages whose data is
\* null.
MalformedKinds == {"unparsable", "chainNull", "blockNull"}

\* messageHandler on a message that JSON.parse rejects, handleChainMessage
\* on data without map, handleBlockMessage on data without transactions: the
\* TypeError is caught and logged before anything is touched.
RecvMalformed(kind) ==
    /\ Sockets # <<>>
    /\ lastErr' = CASE kind = "unparsable" -> "Error parsing message"
                    [] kind = "chainNull" -> "Error handling chain message"
                    [] kind = "blockNull" -> "Error handling block message"
    /\ outbox' = <<>>
    /\ UNCHANGED <<ledgerVars, lockVars, minerVars, now, ticks, envVars>>

\* handleTransactionMessage(txData)
RecvTransaction(txData) ==
    /\ Sockets # <<>>
    /\ CanSpend
    /\ \E nonces \in NonceChoices :
          Result(AddTransaction(Ledger,
                                Transaction(txData.inputs, txData.outputs, now, nonces[1])))

\* handleStakeMessage(stakeData)
RecvStake(stakeData) ==
    /\ Sockets # <<>>
    /\ StakeCall(stakeData.address, stakeData.amount)

\* handleUnstakeMessage(unstakeData)
RecvUnstake(unstakeData) ==
    /\ Sockets # <<>>
    /\ UnstakeCall(unstakeData.address, unstakeData.amount)

NextMsg ==
    \/ peerSockets = <<>> /\ AcceptPeer
    \/ Tick
    \/ \E kind \in MalformedKinds : RecvMalformed(kind)
    \/ \E txData \in PeerTransactions(Ledger) : RecvTransaction(txData)
    \/ \E stakeData \in StakeData : RecvStake(stakeData)
    \/ \E unstakeData \in StakeData : RecvUnstake(unstakeData)

SpecMsg == Init /\ [][NextMsg]_vars

\* C27: a message whose handling ends in the catch of messageHandler or of
\* its handler leaves the chain, the pending transactions, the UTXO index,
\* the stakes and the sockets as they were, and the lock free.
C27_FailedMessageDropped ==
    [][lastErr' # "ok"
          => /\ UNCHANGED <<chain, pendingTransactions, utxoSet, stakes, peerSockets>>
             /\ holder' = <<>>]_vars

\* C28: the hash of every PoW block of the chain has at least as many
\* leading zeros as the difficulty field of the block says.
C28_PowBlocksMeetDifficulty ==
    \A i \in 1..Len(chain) :
        IsProofOfWork(chain[i]) => LeadingZeros(chain[i].hash) >= chain[i].powDifficulty

(***************************************************************************)
(* Starting on a snapshot file that the world outside has changed while    *)
(* no process was up.                                                      *)
(***************************************************************************)
\* What happens to the snapshot file while no process is up.
FileFates ==
    {"intact", "missing", "blank", "garbage", "emptyArray", "badGenesis", "brokenLink",
     "invalidTx"}

\* A transaction with an unsigned input.
UnsignedTx == Transaction(<<TxInput(ZeroHash, 0, 0)>>, <<TxOutput("user1", 1)>>, 0, 1)

\* The block array f of the snapshot with one kind of damage.
DamagedArray(f, kind) ==
    CASE kind = "intact" -> f
      [] kind = "emptyArray" -> <<>>
      [] kind = "badGenesis" -> [f EXCEPT ![1].timestamp = GenesisTimestamp + 1]
      [] kind = "brokenLink" -> [f EXCEPT ![2].previousHash = ZeroHash]
      [] kind = "invalidTx" -> [f EXCEPT ![2].transactions = <<UnsignedTx>>]

\* The process ends, and the snapshot file is left alone, removed, emptied,
\* overwritten with text that is no JSON, or with the JSON of a damaged
\* block array.
ProcessEnds(kind) ==
    /\ running
    /\ fileText = "array"
    /\ kind \in {"brokenLink", "invalidTx"} => Len(file) >= 2
    /\ running' = FALSE
    /\ IF kind \in {"missing", "blank", "garbage"}
       THEN fileText' = kind /\ file' = file
       ELSE fileText' = fileText /\ file' = DamagedArray(file, kind)
    /\ outbox' = <<>>
    /\ lastErr' = "ok"
    /\ UNCHANGED <<chain, utxoSet, pendingTransactions, stakes, lockVars, minerVars, now,
                   ticks, testMode, powCutoff, callVars, peerVars, stakingVars>>

\* What loadBlockchain throws on the snapshot file, or "ok".
LoadError ==
    CASE fileText \in {"missing", "blank"} -> "ok"
      [] fileText = "garbage" -> "Unexpected token"
      [] fileText = "array" ->
            LET reconstructedChain == LoadedChain(file, 1)
            IN  IF LoadBlockchainError(reconstructedChain) # "ok"
                THEN LoadBlockchainError(reconstructedChain)
                ELSE IF ~UpdateUTXOBlocks(reconstructedChain,
                                          [u |-> EmptyUTXOSet, ok |-> TRUE],
                                          reconstructedChain).ok
                THEN "TypeError" ELSE "ok"

\* new Blockchain() on a node whose snapshot file is missing or holds
\* nothing but white space: loadBlockchain installs a genesis block and
\* saves it.
RestartFresh ==
    /\ fileText \in {"missing", "blank"}
    /\ \E n1 \in NonceSet, n2 \in NonceSet :
          /\ chain' = <<CreateGenesisBlock(n2)>>
          /\ utxoSet' = UpdateUTXOSet(<<CreateGenesisBlock(n1)>>, EmptyUTXOSet,
                                      CreateGenesisBlock(n1)).u
          /\ file' = <<CreateGenesisBlock(n2)>>
    /\ fileText' = "array"
    /\ running' = TRUE
    /\ pendingTransactions' = <<>>
    /\ stakes' = NoStakes
    /\ holder' = <<>>
    /\ waiters' = <<>>
    /\ outbox' = <<>>
    /\ lastErr' = "ok"
    /\ mining' = FALSE
    /\ worker' = <<>>
    /\ socket' = FALSE
    /\ miningTimeout' = <<>>
    /\ delayTimers' = <<>>
    /\ minerStopped' = FALSE
    /\ connectedPeers' = {}
    /\ peerSockets' = <<>>
    /\ reconnects' = <<>>
    /\ checkInterval' = <<>>
    /\ retryTimers' = <<>>
    /\ stakingStopped' = FALSE
    /\ UNCHANGED <<now, ticks, testMode, powCutoff, callVars>>

\* new Blockchain() on a snapshot file that loadBlockchain throws on: the
\* catch logs and rethrows, the constructor throws, no process comes up.
RestartFails ==
    /\ ~running
    /\ LoadError # "ok"
    /\ lastErr' = LoadError
    /\ outbox' = <<>>
    /\ UNCHANGED <<ledgerVars, lockVars, minerVars, now, ticks, envVars>>

NextLoad ==
    \/ running /\ CreateAndAdd("genesis", "user1", MIN_STAKE_AMOUNT)
    \/ running /\ StartMining("miner1")
    \/ running /\ WorkerBlock
    \/ \E kind \in FileFates : ProcessEnds(kind)
    \/ ~running /\ Restart
    \/ ~running /\ RestartFresh
    \/ RestartFails

SpecLoad == Init /\ [][NextLoad]_vars

\* The snapshot file exists and loadBlockchain cannot load it.
Unloadable == fileText \in {"blank", "garbage"} \/ (fileText = "array" /\ LoadError # "ok")

\* C29: a start on a snapshot file that exists and cannot be loaded (blank,
\* no JSON, an empty array, a wrong genesis block, a broken link, a block
\* with invalid transactions) fails with an error and leaves the file as it
\* was; a start writes the file only when it was missing, and then writes
\* exactly a genesis block.
C29_UnloadableSnapshotKept ==
    [][(~running /\ (Restart \/ RestartFresh \/ RestartFails))
          => /\ Unloadable
                => /\ ~running'
                   /\ lastErr' # "ok"
                   /\ UNCHANGED <<file, fileText>>
             /\ (file' # file \/ fileText' # fileText)
                => /\ fileText = "missing"
                   /\ fileText' = "array"
                   /\ Len(file') = 1
                   /\ file'[1].previousHash = ZeroHash
                   /\ file'[1].index = 0
                   /\ IsProofOfWork(file'[1])
      ]_vars

\* C30: the block of a mining round, which the Miner hands to addMinedBlock,
\* starts with a coinbase that pays exactly POW_BLOCK_REWARD to the miner
\* address, and no other of its transactions is a coinbase.
C30_MinerCoinbase ==
    worker # <<>> =>
        LET txs == worker[1].transactions
        IN  /\ Len(txs) >= 1
            /\ txs[1].inputs = <<>>
            /\ txs[1].outputs = <<TxOutput("miner1", POW_BLOCK_REWARD)>>
            /\ \A i \in 2..Len(txs) : Len(txs[i].inputs) > 0

C32_AheadBlockOnlyAsksForChain ==
    [][/\ RecvBlock("ahead")
          => /\ outbox' = <<GetLatestBlockMsg>>
             /\ UNCHANGED <<holder, waiters, chain, pendingTransactions, utxoSet, file>>
       /\ RecvBlock("next")
          => /\ Unfinished' = Append(Unfinished,
                                     Handler("BLOCK", <<RebuildBlock(PeerNextBlock(Ledger))>>))
             /\ outbox' = <<>>
             /\ UNCHANGED <<chain, pendingTransactions, utxoSet, file>>
       /\ (RunHolder /\ holder[1].type = "BLOCK")
          => Ledger' = AddMinedBlock(Ledger, holder[1].blocks[1], now).L
      ]_vars

\* GET_LATEST_BLOCK has just been broadcast for a block ahead of a chain
\* that already holds a block of a peer, while a handler holds the lock.
C32_Witness ==
    /\ outbox = <<GetLatestBlockMsg>>
    /\ Len(chain) >= 2
    /\ holder # <<>>

(***************************************************************************)
(* calculateNewDifficulty on chains of up to MaxDifficultyChain blocks     *)
(***************************************************************************)
\* A call of calculateNewDifficulty() from outside.
CalculateNewDifficultyCall ==
    /\ newDifficulty' = <<CalculateNewDifficulty(Ledger)>>
    /\ UNCHANGED <<ledgerVars, lockVars, outbox, lastErr, minerVars, now, ticks, testMode,
                   powCutoff, stakeWeight, createdTx, diskVars, peerVars, stakingVars>>

\* The times in ms between two blocks: around the two thresholds of the
\* adjustment for nine equal gaps, and one gap of more than BLOCK_TIME.
GapChoices == {0, 166, 167, 1000, 2666, 2667, BLOCK_TIME * 1000 + 1}

DifficultyChoices == {0, 1, 2, GenesisDifficulty}

\* A chain of n blocks without transactions, each linked to the one before
\* it and numbered as the node numbers its blocks: the first one is g1 after
\* the genesis block, the later ones g after their predecessors; the first
\* block has difficulty gd, the others d, and each has a nonce that meets it.
RECURSIVE TimedChain(_, _, _, _, _)
TimedChain(n, g1, g, gd, d) ==
    IF n = 1 THEN <<Block(GenesisTimestamp, <<>>, ZeroHash, gd, gd, 0)>>
    ELSE LET c == TimedChain(n - 1, g1, g, gd, d)
         IN  Append(c, Block(c[n - 1].timestamp + (IF n = 2 THEN g1 ELSE g), <<>>,
                             c[n - 1].hash, d, d, n - 1))

\* The node after replaceChain(newChain) has installed a chain of blocks
\* without transactions on a node of its own.
InitDifficulty ==
    /\ \E n \in 2..MaxDifficultyChain, g1 \in {0, BLOCK_TIME * 1000 + 1}, g \in GapChoices,
          gd \in {0, GenesisDifficulty}, d \in DifficultyChoices :
          /\ chain = TimedChain(n, g1, g, gd, d)
          /\ file = chain
    /\ utxoSet = EmptyUTXOSet
    /\ pendingTransactions = <<>>
    /\ stakes = NoStakes
    /\ InitEnv(MaxDifficultyChain)

NextDifficulty == CalculateNewDifficultyCall

SpecDifficulty == InitDifficulty /\ [][NextDifficulty]_vars

\* C33: what calculateNewDifficulty returns is the difficulty of the first
\* block when the chain has fewer than DIFFICULTY_ADJUSTMENT_INTERVAL
\* blocks; otherwise, with timeTaken the time from the block at position
\* head.index - DIFFICULTY_ADJUSTMENT_INTERVAL to the head, it is one more
\* than the head's difficulty when timeTaken is under a quarter of
\* BLOCK_TIME * DIFFICULTY_ADJUSTMENT_INTERVAL, one less (but at least 1)
\* when it is over four times that, and the head's difficulty otherwise;
\* and it is never below 1.
C33_ExpectedDifficulty ==
    newDifficulty # <<>> =>
        /\ newDifficulty[1] >= 1
        /\ IF Len(chain) < DIFFICULTY_ADJUSTMENT_INTERVAL
           THEN newDifficulty[1] = chain[1].powDifficulty
           ELSE LET head == chain[Len(chain)]
                    base == head.index - DIFFICULTY_ADJUSTMENT_INTERVAL + 1
                    timeExpected == BLOCK_TIME * DIFFICULTY_ADJUSTMENT_INTERVAL
                IN  /\ base \in 1..Len(chain)
                    /\ LET timeTaken == head.timestamp - chain[base].timestamp
                       IN  newDifficulty[1] =
                              IF timeTaken * DIFFICULTY_ADJUSTMENT_FACTOR < timeExpected
                              THEN head.powDifficulty + 1
                              ELSE IF timeTaken > timeExpected * DIFFICULTY_ADJUSTMENT_FACTOR
                              THEN Max(1, head.powDifficulty - 1)
                              ELSE head.powDifficulty

\* C34: the lastBlockTime of an address that has a stake before and after a
\* step changes only in a step that appends to the chain a block whose
\* coinbase pays that address; a step that leaves the chain as it is (a
\* generateStakeBlock that returns null, or one whose block addMinedBlock
\* rejects) leaves the stake registry as it is.
C34_LastBlockTimeFollowsChain ==
    [][/\ \A a \in Address :
            (/\ stakes[a] # NoStake /\ stakes'[a] # NoStake
             /\ stakes'[a].lastBlockTime # stakes[a].lastBlockTime)
            => /\ Len(chain') = Len(chain) + 1
               /\ SubSeq(chain', 1, Len(chain)) = chain
               /\ chain'[Len(chain')].transactions[1].outputs[1].address = a
       /\ (\E a \in Address : StakingStart(a) \/ IntervalFires(a) \/ RetryTimerFires(a))
            => (chain' = chain => stakes' = stakes)
      ]_vars

(***************************************************************************)
(* createTransaction on its own                                            *)
(***************************************************************************)
\* A call of createTransaction(from, to, amount, wallet) from outside, with
\* the wallet of `from`.
CreateTransactionCall(from, to, amount) ==
    /\ \E nonces \in NonceChoices :
          LET created == CreateTransaction(Ledger, from, to, amount, now, nonces[1])
          IN  createdTx' = <<[from |-> from, to |-> to, amount |-> amount,
                              tx |-> created.tx, err |-> created.err]>>
    /\ UNCHANGED <<ledgerVars, lockVars, outbox, lastErr, minerVars, now, ticks, testMode,
                   powCutoff, stakeWeight, newDifficulty, diskVars, peerVars, stakingVars>>

\* Nothing, a stake, a block reward and one coin more, the genesis
\* allocation and one coin more.
CreateAmounts ==
    {0, MIN_STAKE_AMOUNT, POW_BLOCK_REWARD, POW_BLOCK_REWARD + 1, GenesisAmount,
     GenesisAmount + 1}

NextCreate ==
    \/ MinePending("miner1")
    \/ StakeCall("miner1", MIN_STAKE_AMOUNT)
    \/ \E from \in {"genesis", "miner1"}, amount \in CreateAmounts :
          CreateTransactionCall(from, "user1", amount)

SpecCreate == Init /\ [][NextCreate]_vars

RECURSIVE SumOutputs(_)
SumOutputs(outs) == IF outs = <<>> THEN 0 ELSE Head(outs).amount + SumOutputs(Tail(outs))

\* C35: createTransaction(from, to, amount, wallet) leaves the chain, the
\* pending transactions and the UTXO index as they are.  It fails with
\* 'Insufficient funds' exactly when the UTXOs of `from` sum to less than
\* amount.  Otherwise the inputs of the transaction it returns are the first
\* k UTXOs of `from`, in the order of the index, for the first k at which
\* their sum reaches amount; its outputs are {to, amount}, followed by
\* {from, change} exactly when change = sum - amount is positive, so the
\* outputs sum to what the selected UTXOs hold.
C35_CreateTransaction ==
    [][\A from \in {"genesis", "miner1"}, to \in {"user1"}, amount \in CreateAmounts :
          CreateTransactionCall(from, to, amount)
          => LET utxos == GetUTXOs(Ledger, from)
                 r == createdTx'[1]
             IN  /\ UNCHANGED <<chain, pendingTransactions, utxoSet, stakes, file>>
                 /\ r.err # "ok" <=> SumUTXO(utxos) < amount
                 /\ r.err # "ok" => r.err = "Insufficient funds"
                 /\ r.err = "ok" =>
                      \E k \in 0..Len(utxos) :
                         LET sum == SumUTXO(SubSeq(utxos, 1, k))
                             change == sum - amount
                         IN  /\ Len(r.tx.inputs) = k
                             /\ \A i \in 1..k :
                                   /\ r.tx.inputs[i].previousTx = utxos[i].txHash
                                   /\ r.tx.inputs[i].outputIndex = utxos[i].outputIndex
                             /\ sum >= amount
                             /\ \A j \in 1..(k - 1) : SumUTXO(SubSeq(utxos, 1, j)) < amount
                             /\ r.tx.outputs =
                                   IF change > 0
                                   THEN <<TxOutput(to, amount), TxOutput(from, change)>>
                                   ELSE <<TxOutput(to, amount)>>
                             /\ SumOutputs(r.tx.outputs) = sum
      ]_vars

\* createTransaction chose two of several UTXOs and returned the change.
C35_Witness ==
    /\ createdTx # <<>>
    /\ createdTx[1].err = "ok"
    /\ Len(createdTx[1].tx.inputs) = 2
    /\ Len(createdTx[1].tx.outputs) = 2
    /\ Len(utxoSet[createdTx[1].from]) > 2

(***************************************************************************)
(* A holder of a stake who also spends                                     *)
(***************************************************************************)
NextLock ==
    \/ Tick
    \/ MinePending("miner1")
    \/ StakeCall("miner1", MIN_STAKE_AMOUNT)
    \/ UnstakeCall("miner1", MIN_STAKE_AMOUNT)
    \/ MinePending("user1")
    \/ \E k \in 1..2 : CreateAndAdd("miner1", "user1", k * POW_BLOCK_REWARD)

SpecLock == Init /\ [][NextLock]_vars

\* C36: in every reachable state the stake of every address that has one is
\* at most the balance of that address: no sequence of stake,
\* createTransaction and addTransaction, minePendingTransactions and unstake
\* brings the balance below the stake or the stake above the balance.
C36_StakeWithinBalance ==
    \A a \in Address : HasStake(Ledger, a) => GetStake(Ledger, a) <= GetBalance(Ledger, a)

\* The transaction generateStakeBlock(address) would stake now: the one
\* findStakeableOutput returns for the amount of the stake.
StakedOutput(address) ==
    FindStakeableOutput(Ledger, GetUTXOs(Ledger, address), GetStake(Ledger, address))

\* C37: when the staking service gets a block from generateStakeBlock(address)
\* at least BLOCK_TIME after the timestamp of the head, and the transaction
\* of the staked output is at least MIN_STAKE_AGE old, addMinedBlock appends
\* that block to the chain.
C37_StakeBlockAccepted ==
    [][\A a \in Address :
          (/\ StakingStart(a) \/ IntervalFires(a) \/ RetryTimerFires(a)
           /\ checkInterval' # checkInterval \/ retryTimers' # retryTimers
           /\ \E nonces \in NonceChoices :
                 GenerateStakeBlock(Ledger, a, now, testMode, nonces).block # <<>>
           /\ now - GetLatestBlock(Ledger).timestamp >= BLOCK_TIME * 1000
           /\ now - StakedOutput(a)[1].tx.timestamp >= MIN_STAKE_AGE * 1000)
          => \E nonces \in NonceChoices :
                chain' = chain \o GenerateStakeBlock(Ledger, a, now, testMode, nonces).block
      ]_vars

(***************************************************************************)
(* The three users of replaceLock, and the event loop that runs the        *)
(* continuation of every acquire() that has resolved                       *)
(***************************************************************************)
NextMutex ==
    \/ \E data \in PeerChains(Ledger) : RecvChain(data)
    \/ \E kind \in PeerBlockKinds : RecvBlock(kind)
    \/ \E newChain \in PeerChains(Ledger) : ReplaceChainCall(newChain)
    \/ RunHolder

SpecMutex == Init /\ [][NextMutex]_vars /\ WF_vars(RunHolder)

\* C38: replaceLock is never left held.  The handler that holds it leaves
\* it in the step in which its body ends, with an error or without, and the
\* first handler in the queue, if there is one, holds it from then on; no
\* other step takes a handler out of the lock or its queue or lets a second
\* one in beside the holder; and again and again the lock is free or its
\* holder releases it, so every handler in the queue moves up and gets it.
C38_MutexReleased ==
    /\ [](Len(holder) <= 1 /\ (holder = <<>> => waiters = <<>>))
    /\ [][/\ RunHolder
             => /\ Unfinished' = Tail(Unfinished)
                /\ holder' = (IF waiters = <<>> THEN <<>> ELSE <<waiters[1]>>)
          /\ ~RunHolder
             => /\ Len(Unfinished') \in {Len(Unfinished), Len(Unfinished) + 1}
                /\ SubSeq(Unfinished', 1, Len(Unfinished)) = Unfinished
                /\ holder # <<>> => holder' = holder
         ]_vars
    /\ []<>(holder = <<>>) \/ []<><<RunHolder>>_vars

\* A handler has failed, and the one that waited behind it holds the lock.
C38_Witness == lastErr \notin {"ok"} /\ holder # <<>> /\ waiters = <<>>

\* The amounts of all entries of the UTXO index u.
RECURSIVE SumIndex(_, _)
SumIndex(u, addresses) ==
    IF addresses = {} THEN 0
    ELSE LET a == CHOOSE x \in addresses : TRUE
         IN  SumUTXO(u[a]) + SumIndex(u, addresses \ {a})

\* The block rewards of the blocks after the first one: one per block.
RECURSIVE SumRewards(_)
SumRewards(blocks) ==
    IF blocks = <<>> THEN 0
    ELSE (IF IsProofOfStake(Head(blocks)) THEN POS_BLOCK_REWARD ELSE POW_BLOCK_REWARD)
         + SumRewards(Tail(blocks))

\* What the outputs hold that the inputs ins refer to in the chain c.
RECURSIVE SpentSum(_, _)
SpentSum(c, ins) ==
    IF ins = <<>> THEN 0
    ELSE LET found == FindTransaction(c, Head(ins).previousTx)
         IN  (IF found # <<>> /\ Head(ins).outputIndex + 1 <= Len(found[1].outputs)
              THEN found[1].outputs[Head(ins).outputIndex + 1].amount ELSE 0)
             + SpentSum(c, Tail(ins))

NoValueCreated(c, tx) ==
    Len(tx.inputs) > 0 => SumOutputs(tx.outputs) <= SpentSum(c, tx.inputs)

\* C39: in every reachable state the amounts in the UTXO index sum to at most
\* the genesis allocation plus one block reward for every block after the
\* first; the outputs of no pending transaction and of no transaction with
\* inputs in a block of the chain sum to more than the outputs its inputs
\* spend; and no block has more than one transaction without inputs.
C39_ValueConserved ==
    /\ SumIndex(utxoSet, Address) <= GenesisAmount + SumRewards(Tail(chain))
    /\ \A i \in 1..Len(pendingTransactions) : NoValueCreated(chain, pendingTransactions[i])
    /\ \A i \in 1..Len(chain) :
          /\ \A k \in 1..Len(chain[i].transactions) :
                NoValueCreated(chain, chain[i].transactions[k])
          /\ Cardinality({k \in 1..Len(chain[i].transactions) :
                             Len(chain[i].transactions[k].inputs) = 0}) <= 1

====
